---- MODULE Spec2Model ----
(***************************************************************************)
(* Replay of parsed DDL statements into the mutable Schema model           *)
(* (erd_generator/schema.py, erd_generator/sql_parser.py), the Snapshot    *)
(* diff report (erd_generator/schema_diff.py) and the walks over the cell  *)
(* graph of a draw.io file (erd_generator/drawio_parser.py).               *)
(*                                                                         *)
(* Python values are modelled as follows.  A str is a TLA+ string; None    *)
(* and the empty string are both "" (the code only ever tests them for     *)
(* truthiness).  A tuple or list is a sequence, a set is a set, a dict     *)
(* whose order is never read (constraint_types) is a function, and the     *)
(* Schema dict, whose insertion order is read by every loop over           *)
(* schema.values(), is a sequence of tables in insertion order, each       *)
(* carrying the key it is stored under.                                    *)
(***************************************************************************)
EXTENDS Integers, Sequences, FiniteSets, TLC

VARIABLES
    schema,     \* the Schema dict being replayed into
    failures,   \* the ParseFailure list handed to parse_schema_from_sql
    pos,        \* number of statements of the input consumed so far
    last,       \* the statement consumed last (NoStmt before the first)
    prev,       \* the Schema as it was before the last statement
    before,     \* the Schema as it was before the statement preceding the last
    first,      \* the statement preceding the last (NoStmt if none)
    dropped,    \* names of the tables removed by DROP TABLE and not a key since
    mig,        \* migration-side Snapshot handed to generate_diff_report
    dia,        \* diagram-side Snapshot handed to generate_diff_report
    diagram,    \* the DiagramTable map the diagram-side Snapshot is built from
    reports,    \* the reports produced so far, one per run
    sql,        \* the text handed to _split_sql_statements, as its characters
    splits,     \* the statement lists _split_sql_statements has returned
    cells,      \* the cells of the draw.io file, in document order
    walk,       \* where the run over the cells stands: its loop, and the call in progress
    column_map  \* the column_map built so far, in insertion order

vars ==
    <<schema, failures, pos, last, prev, before, first, dropped, mig, dia, diagram, reports,
      sql, splits, cells, walk, column_map>>

replayVars == <<schema, failures, pos, last, prev, before, first, dropped>>
diffVars == <<mig, dia, diagram, reports>>
splitVars == <<sql, splits>>
cellVars == <<cells, walk, column_map>>

-----------------------------------------------------------------------------
(* Strings.  str.lower() on the identifiers the model draws its inputs from. *)

LowerPairs ==
    { <<"C", "c">>, <<"D", "d">>, <<"T", "t">>, <<"U", "u">>, <<"K", "k">>, <<"P", "p">>,
      <<"ID", "id">>, <<"EMAIL", "email">>, <<"USER_ID", "user_id">>,
      <<"F", "f">>, <<"I", "i">>, <<"W", "w">>, <<"S", "s">>,
      <<"H", "h">>, <<"E", "e">>, <<"R", "r">>,
      <<"email IS NOT NULL", "email is not null">>, <<"PK", "pk">>,
      <<"FK c -> u Index on [c]", "fk c -> u index on [c]">> }

Lower(s) == IF \E p \in LowerPairs : p[1] = s
            THEN (CHOOSE p \in LowerPairs : p[1] = s)[2]
            ELSE s

\* str.upper() on the column names of the indexes
Upper(text) == IF \E p \in LowerPairs : p[2] = text
               THEN (CHOOSE p \in LowerPairs : p[2] = text)[1]
               ELSE text

\* str.strip() on the identifiers and data types the model draws its inputs from
StripPairs ==
    { <<" c", "c">>, <<"c ", "c">>, <<" t ", "t">>,
      <<" text ", "text">>, <<"text ", "text">>, <<" text", "text">>, <<"\tint", "int">> }

Strip(value) == IF \E p \in StripPairs : p[1] = value
                THEN (CHOOSE p \in StripPairs : p[1] = value)[2]
                ELSE value

Range(seq) == {seq[i] : i \in 1..Len(seq)}

SeqMap(Op(_), seq) == [i \in 1..Len(seq) |-> Op(seq[i])]

RECURSIVE SeqFilter(_, _)
SeqFilter(Keep(_), seq) ==
    IF seq = <<>> THEN <<>>
    ELSE IF Keep(Head(seq)) THEN <<Head(seq)>> \o SeqFilter(Keep, Tail(seq))
    ELSE SeqFilter(Keep, Tail(seq))

\* sep.join(items)
RECURSIVE Join(_, _)
Join(items, sep) ==
    IF items = <<>> THEN ""
    ELSE IF Len(items) = 1 THEN items[1]
    ELSE items[1] \o sep \o Join(Tail(items), sep)

-----------------------------------------------------------------------------
(* schema.py: Column, ForeignKey, Table *)

Column(name, data_type, nullable, is_primary_key) ==
    [name |-> name, data_type |-> data_type, nullable |-> nullable,
     is_primary_key |-> is_primary_key]

ForeignKey(columns, ref_table, ref_columns, name) ==
    [columns |-> columns, ref_table |-> ref_table, ref_columns |-> ref_columns,
     name |-> name]

Table(name) ==
    [name |-> name, columns |-> <<>>, primary_key |-> {}, foreign_keys |-> <<>>,
     constraint_types |-> <<>>, primary_key_name |-> ""]

\* The parser and the diff read a seventh field, indexes, which the dataclass
\* of schema.py does not declare; the specification gives a Table its indexes,
\* none at first.  The tables of a Schema are built this way.
TableWithIndexes(name) ==
    LET t == Table(name)
    IN [name |-> t.name, columns |-> t.columns, primary_key |-> t.primary_key,
        foreign_keys |-> t.foreign_keys, constraint_types |-> t.constraint_types,
        primary_key_name |-> t.primary_key_name, indexes |-> <<>>]

\* dict.pop(key, None) and dict[key] = value on the constraint registry
DictPop(d, key) == [k \in DOMAIN d \ {key} |-> d[k]]
DictSet(d, key, value) == [k \in DOMAIN d \cup {key} |-> IF k = key THEN value ELSE d[k]]
DictGet(d, key) == IF key \in DOMAIN d THEN d[key] ELSE ""

get_column_index(t, column_name) ==
    LET hits == {i \in 1..Len(t.columns) : Lower(t.columns[i].name) = Lower(column_name)}
    IN IF hits = {} THEN 0 ELSE CHOOSE i \in hits : \A j \in hits : i <= j

has_column(t, column_name) == get_column_index(t, column_name) # 0

register_constraint(t, constraint_name, constraint_type) ==
    [t EXCEPT !.constraint_types = DictSet(@, Lower(constraint_name), constraint_type)]

\* sync_primary_key_flags that leaves every flag as it finds it
FlagsLeftAsFound(t) == t

sync_primary_key_flags(t) ==
    LET pk_columns == {Lower(col) : col \in t.primary_key}
    IN [t EXCEPT !.columns =
            [i \in 1..Len(@) |->
                [@[i] EXCEPT !.is_primary_key = Lower(t.columns[i].name) \in pk_columns]]]

set_primary_key(t, columns, constraint_name) ==
    LET t1 == [t EXCEPT !.primary_key = columns]
        key == Lower(constraint_name)
        t2 == register_constraint(t1, constraint_name, "primary_key")
        t3 == IF t2.primary_key_name # "" /\ t2.primary_key_name # key
              THEN [t2 EXCEPT !.constraint_types = DictPop(@, t2.primary_key_name)]
              ELSE t2
        t4 == [t3 EXCEPT !.primary_key_name = key]
    IN sync_primary_key_flags(IF constraint_name # "" THEN t4 ELSE t1)

add_column(t, column) ==
    LET i == get_column_index(t, column.name)
        t1 == IF i # 0
              THEN [t EXCEPT !.columns[i] = [column EXCEPT !.name = t.columns[i].name]]
              ELSE [t EXCEPT !.columns = Append(@, column)]
        t2 == IF column.is_primary_key
              THEN [t1 EXCEPT !.primary_key = @ \cup {column.name}]
              ELSE t1
    IN sync_primary_key_flags(t2)

add_foreign_key(t, foreign_key, constraint_name) ==
    LET named == IF constraint_name # ""
                 THEN [foreign_key EXCEPT !.name = Lower(constraint_name)]
                 ELSE [foreign_key EXCEPT !.name = Lower(@)]
        t1 == IF named.name # ""
              THEN [t EXCEPT !.constraint_types = DictSet(@, named.name, "foreign_key")]
              ELSE t
    IN [t1 EXCEPT !.foreign_keys = Append(@, named)]

\* Index: the fields the Snapshot reads, and the name
Index(name, columns, column_names, unique, where) ==
    [name |-> name, columns |-> columns, column_names |-> column_names,
     unique |-> unique, where |-> where]

\* Table.add_index: the table holds a set of indexes, kept here in the order
\* of their first addition
add_index(t, index, constraint_name, constraint_type) ==
    LET t1 == IF constraint_name # ""
              THEN register_constraint(t, constraint_name, constraint_type)
              ELSE t
    IN IF index \in Range(t1.indexes) THEN t1
       ELSE [t1 EXCEPT !.indexes = Append(@, index)]

\* whether the table holds an index of that name
has_index(t, index_name) == \E i \in 1..Len(t.indexes) : t.indexes[i].name = index_name

\* Table.rename_index: the index of the old name takes the new one; its result
\* (whether the table held such an index) is has_index(t, old_name)
\* the indexes of the name leave the table; the caller learns from has_index
\* whether there was one
drop_index(t, index_name) ==
    LET Kept(index) == index.name # index_name
    IN [t EXCEPT !.indexes = SeqFilter(Kept, @)]

rename_index(t, old_name, new_name) ==
    [t EXCEPT !.indexes = [i \in 1..Len(@) |->
                              IF @[i].name = old_name THEN [@[i] EXCEPT !.name = new_name]
                              ELSE @[i]]]

drop_column(t, column_name) ==
    LET target == Lower(column_name)
        HasTarget(fk) == target \in {Lower(col) : col \in Range(fk.columns)}
        KeepColumn(column) == Lower(column.name) # target
        KeepFk(fk) == ~HasTarget(fk)
        removed_fk_names == {t.foreign_keys[i].name : i \in
                                {j \in 1..Len(t.foreign_keys) :
                                    t.foreign_keys[j].name # "" /\ HasTarget(t.foreign_keys[j])}}
        constraint_types == [k \in DOMAIN t.constraint_types \ {Lower(n) : n \in removed_fk_names}
                                |-> t.constraint_types[k]]
        t1 == [t EXCEPT !.columns = SeqFilter(KeepColumn, @),
                        !.primary_key = {col \in @ : Lower(col) # target},
                        !.foreign_keys = SeqFilter(KeepFk, @),
                        !.constraint_types = constraint_types]
        t2 == IF t1.primary_key_name # "" /\ t1.primary_key_name \notin DOMAIN t1.constraint_types
              THEN [t1 EXCEPT !.primary_key_name = ""]
              ELSE t1
    IN sync_primary_key_flags(t2)

update_nullable(t, column_name, nullable) ==
    LET i == get_column_index(t, column_name)
    IN IF i # 0 THEN [t EXCEPT !.columns[i].nullable = nullable] ELSE t

update_data_type(t, column_name, data_type) ==
    LET i == get_column_index(t, column_name)
    IN IF i # 0 /\ data_type # ""
       THEN [t EXCEPT !.columns[i].data_type = Strip(data_type)] ELSE t

\* drop_constraint that takes a name missing from the registry for the primary key's
DropConstraintDefaultingToPrimaryKey(t, constraint_name) ==
    LET key == Lower(constraint_name)
        constraint_type == IF key \in DOMAIN t.constraint_types
                           THEN t.constraint_types[key] ELSE "primary_key"
        KeepFk(fk) == Lower(fk.name) # key
        t1 == [t EXCEPT !.constraint_types = DictPop(@, key)]
    IN IF constraint_type = "primary_key"
       THEN sync_primary_key_flags([t1 EXCEPT !.primary_key = {}, !.primary_key_name = ""])
       ELSE IF constraint_type = "foreign_key"
       THEN [t1 EXCEPT !.foreign_keys = SeqFilter(KeepFk, @)]
       ELSE t1

drop_constraint(t, constraint_name) ==
    LET key == Lower(constraint_name)
        constraint_type == DictGet(t.constraint_types, key)
        KeepFk(fk) == Lower(fk.name) # key
        t1 == [t EXCEPT !.constraint_types = DictPop(@, key)]
    IN IF constraint_type = "primary_key"
       THEN sync_primary_key_flags([t1 EXCEPT !.primary_key = {}, !.primary_key_name = ""])
       ELSE IF constraint_type = "foreign_key"
       THEN [t1 EXCEPT !.foreign_keys = SeqFilter(KeepFk, @)]
       ELSE t1

rename_constraint(t, old_name, new_name) ==
    LET old_key == Lower(old_name)
        new_key == Lower(new_name)
        constraint_type == DictGet(t.constraint_types, old_key)
        t1 == [t EXCEPT !.constraint_types = DictSet(DictPop(@, old_key), new_key, constraint_type)]
        hits == {i \in 1..Len(t.foreign_keys) : Lower(t.foreign_keys[i].name) = old_key}
        firstHit == CHOOSE i \in hits : \A j \in hits : i <= j
    IN IF constraint_type = "" THEN t
       ELSE IF constraint_type = "primary_key"
       THEN [t1 EXCEPT !.primary_key_name = new_key]
       ELSE IF constraint_type = "foreign_key" /\ hits # {}
       THEN [t1 EXCEPT !.foreign_keys[firstHit].name = new_key]
       ELSE t1

RenameIn(cols, old_key, new_name) ==
    [i \in 1..Len(cols) |-> IF Lower(cols[i]) = old_key THEN new_name ELSE cols[i]]

rename_column(t, old_name, new_name) ==
    LET old_key == Lower(old_name)
        RenameFk(fk) ==
            [fk EXCEPT !.columns = RenameIn(@, old_key, new_name),
                       !.ref_columns = IF fk.ref_table = t.name
                                       THEN RenameIn(@, old_key, new_name) ELSE @]
        t1 == [t EXCEPT
                 !.columns = [i \in 1..Len(@) |->
                                IF Lower(@[i].name) = old_key
                                THEN [@[i] EXCEPT !.name = new_name] ELSE @[i]],
                 !.primary_key = {IF Lower(col) = old_key THEN new_name ELSE col : col \in @},
                 !.foreign_keys = SeqMap(RenameFk, @)]
    IN sync_primary_key_flags(t1)

-----------------------------------------------------------------------------
(* schema.py: the Schema dict and the Schema-wide renames *)

Keys(s) == {s[i].key : i \in 1..Len(s)}

KeyIndex(s, key) == CHOOSE i \in 1..Len(s) : s[i].key = key

\* schema[key]
Get(s, key) == s[KeyIndex(s, key)].table

\* schema[key] = table: in place when the key exists, appended otherwise
Set(s, key, table) ==
    IF key \in Keys(s)
    THEN [s EXCEPT ![KeyIndex(s, key)] = [key |-> key, table |-> table]]
    ELSE Append(s, [key |-> key, table |-> table])

\* schema.pop(key, None)
Pop(s, key) ==
    LET Keep(e) == e.key # key IN SeqFilter(Keep, s)

\* schema.setdefault(key, Table(name=key)), as the Schema it leaves
SetDefault(s, key) == IF key \in Keys(s) THEN s ELSE Append(s, [key |-> key, table |-> TableWithIndexes(key)])

\* one pass "for other in schema.values(): for fk in other.foreign_keys: fk := F(other, fk)"
MapForeignKeys(s, F(_, _)) ==
    [i \in 1..Len(s) |->
        [s[i] EXCEPT !.table.foreign_keys =
            [j \in 1..Len(@) |-> F(s[i].table, @[j])]]]

\* rename_table that stores the table under the new key and leaves it under the old one
RenameTableLeavingOldKey(s, old_name, new_name) ==
    LET table == [Get(s, old_name) EXCEPT !.name = new_name]
        s1 == Set(Set(s, old_name, table), new_name, table)
        Rewrite(other, fk) ==
            IF fk.ref_table = old_name THEN [fk EXCEPT !.ref_table = new_name] ELSE fk
    IN IF old_name \notin Keys(s) THEN s ELSE MapForeignKeys(s1, Rewrite)

\* rename_table that rewrites the other tables and skips the renamed one
RenameTableSkippingItself(s, old_name, new_name) ==
    LET table == [Get(s, old_name) EXCEPT !.name = new_name]
        s1 == Set(Pop(s, old_name), new_name, table)
        Rewrite(other, fk) ==
            IF other.name # new_name /\ fk.ref_table = old_name
            THEN [fk EXCEPT !.ref_table = new_name] ELSE fk
    IN IF old_name \notin Keys(s) THEN s ELSE MapForeignKeys(s1, Rewrite)

rename_table(s, old_name, new_name) ==
    LET table == [Get(s, old_name) EXCEPT !.name = new_name]
        s1 == Set(Pop(s, old_name), new_name, table)
        Rewrite(other, fk) ==
            IF fk.ref_table = old_name THEN [fk EXCEPT !.ref_table = new_name] ELSE fk
    IN IF old_name \notin Keys(s) THEN s ELSE MapForeignKeys(s1, Rewrite)

\* rename_column_in_schema that renames within the table only
RenameColumnInTableOnly(s, table_name, old_name, new_name) ==
    IF table_name \notin Keys(s) THEN s
    ELSE Set(s, table_name, rename_column(Get(s, table_name), old_name, new_name))

rename_column_in_schema(s, table_name, old_name, new_name) ==
    LET s1 == Set(s, table_name, rename_column(Get(s, table_name), old_name, new_name))
        Rewrite(other, fk) ==
            IF other.name # table_name /\ fk.ref_table = table_name
            THEN [fk EXCEPT !.ref_columns = RenameIn(@, Lower(old_name), new_name)]
            ELSE fk
    IN IF table_name \notin Keys(s) THEN s ELSE MapForeignKeys(s1, Rewrite)

-----------------------------------------------------------------------------
(* sql_parser.py: identifiers of the parsed statement *)

\* exp.Identifier
Identifier(this, quoted) == [this |-> this, quoted |-> quoted]

\* exp.Table: an optional db qualifier (NoIdentifier when absent) and the name;
\* a node of three parts carries its catalog as well
NoIdentifier == Identifier("", FALSE)
TableNode(db, this) == [db |-> db, this |-> this]
CatalogTableNode(catalog, db, this) == [catalog |-> catalog, db |-> db, this |-> this]

_identifier_name(node) == IF node.quoted THEN node.this ELSE Lower(node.this)

_column_name(node) == _identifier_name(node)

\* node.catalog and node.db reach _identifier_name as plain text, the quoting of
\* their identifiers gone, and are lower-cased whether quoted or not
_qualifier_name(node) == Lower(Strip(node.this))

\* ".".join(part for part in parts if part) of the parts catalog, db and name
Dotted(catalog, db, this) ==
    LET tail == IF db = "" THEN this
                ELSE IF this = "" THEN db
                ELSE db \o "." \o this
    IN IF catalog = "" THEN tail
       ELSE IF tail = "" THEN catalog
       ELSE catalog \o "." \o tail

_table_name(node) ==
    LET catalog == IF "catalog" \in DOMAIN node THEN _qualifier_name(node.catalog) ELSE ""
        db == _qualifier_name(node.db)
        this == _identifier_name(node.this)
    IN Dotted(catalog, db, this)

\* _normalize_identifier reads a text; the model hands it the text as the node of
\* its dotted chunks, a chunk in double quotes being a quoted identifier.  Every
\* chunk, qualifiers included, keeps its case when quoted and is lower-cased when not.
_chunk_name(chunk) == IF chunk.quoted THEN chunk.this ELSE Lower(Strip(chunk.this))

_normalize_identifier(text) ==
    LET catalog == IF "catalog" \in DOMAIN text THEN _chunk_name(text.catalog) ELSE ""
        db == _chunk_name(text.db)
        this == _chunk_name(text.this)
    IN Dotted(catalog, db, this)

-----------------------------------------------------------------------------
(* sql_parser.py: the parsed statement (the sqlglot expression tree), as far *)
(* as the handlers read it.  Every node carries its class in "node".         *)

ColumnDef(this, kind, constraints) ==
    [node |-> "ColumnDef", this |-> this, kind |-> kind, constraints |-> constraints]
ColumnConstraint(this, kind) == [node |-> "ColumnConstraint", this |-> this, kind |-> kind]
PrimaryKeyColumnConstraint == [node |-> "PrimaryKeyColumnConstraint"]
NotNullColumnConstraint == [node |-> "NotNullColumnConstraint"]
\* exp.Reference over exp.Schema(this=table, expressions=columns)
Reference(table, columns) == [node |-> "Reference", table |-> table, columns |-> columns]
NoReference == [node |-> "None"]
PrimaryKey(expressions) == [node |-> "PrimaryKey", expressions |-> expressions]
ForeignKeyExpr(expressions, reference) ==
    [node |-> "ForeignKey", expressions |-> expressions, reference |-> reference]
Constraint(this, expressions) ==
    [node |-> "Constraint", this |-> this, expressions |-> expressions]

RECURSIVE Fold(_, _, _)
\* "for item in seq: acc = Op(acc, item)"
Fold(Op(_, _), acc, seq) ==
    IF seq = <<>> THEN acc ELSE Fold(Op, Op(acc, Head(seq)), Tail(seq))

_apply_primary_key(table, pk_expr, constraint_name) ==
    set_primary_key(table, Range(SeqMap(_column_name, pk_expr.expressions)), constraint_name)

_apply_foreign_key(table, fk_expr, constraint_name) ==
    LET local_columns == SeqMap(_column_name, fk_expr.expressions)
        reference == fk_expr.reference
        ref_table == IF reference.node = "Reference" THEN _table_name(reference.table) ELSE ""
        ref_columns == IF reference.node = "Reference"
                       THEN SeqMap(_column_name, reference.columns) ELSE <<>>
    IN add_foreign_key(table, ForeignKey(local_columns, ref_table, ref_columns, ""),
                       constraint_name)

\* exp.UniqueColumnConstraint: the table-level UNIQUE (c, ...) lists its columns,
\* the inline UNIQUE of a column definition lists none
UniqueColumnConstraint(columns) == [node |-> "UniqueColumnConstraint", columns |-> columns]

_apply_unique_constraint(table, unique_expr, constraint_name) ==
    LET column_names == SeqMap(_column_name, unique_expr.columns)
        index == Index(constraint_name, SeqMap(Upper, column_names), column_names, TRUE, "")
    IN add_index(table, index, constraint_name, "unique")

_apply_constraint(table, constraint) ==
    LET constraint_name == _identifier_name(constraint.this)
        Item(t, item) ==
            IF item.node = "PrimaryKey" THEN _apply_primary_key(t, item, constraint_name)
            ELSE IF item.node = "ForeignKey" THEN _apply_foreign_key(t, item, constraint_name)
            ELSE IF item.node = "UniqueColumnConstraint"
            THEN _apply_unique_constraint(t, item, constraint_name)
            ELSE t
    IN Fold(Item, table, constraint.expressions)

\* the loop state is the table, the column being built and pk_constraint_name
\* _apply_column_constraints that passes over an inline REFERENCES
ColumnConstraintsIgnoringReferences(table, column, constraints) ==
    LET One(st, constraint) ==
            LET constraint_name == _identifier_name(constraint.this)
                kind == constraint.kind
            IN IF kind.node = "PrimaryKeyColumnConstraint"
               THEN [st EXCEPT !.column.is_primary_key = TRUE,
                               !.pk_constraint_name =
                                   IF constraint_name # "" THEN constraint_name ELSE @]
               ELSE IF kind.node = "NotNullColumnConstraint"
               THEN [st EXCEPT !.column.nullable = FALSE]
               ELSE IF kind.node = "UniqueColumnConstraint"
               THEN [st EXCEPT !.table =
                        add_index(@,
                            Index(constraint_name, <<Upper(st.column.name)>>,
                                  <<st.column.name>>, TRUE, ""),
                            constraint_name, "unique")]
               ELSE st
        done == Fold(One, [table |-> table, column |-> column, pk_constraint_name |-> ""],
                     constraints)
    IN IF done.column.is_primary_key /\ done.pk_constraint_name # ""
       THEN [done EXCEPT !.table = set_primary_key(@, @.primary_key, done.pk_constraint_name)]
       ELSE done

_apply_column_constraints(table, column, constraints) ==
    LET One(st, constraint) ==
            LET constraint_name == _identifier_name(constraint.this)
                kind == constraint.kind
            IN IF kind.node = "PrimaryKeyColumnConstraint"
               THEN [st EXCEPT !.column.is_primary_key = TRUE,
                               !.pk_constraint_name =
                                   IF constraint_name # "" THEN constraint_name ELSE @]
               ELSE IF kind.node = "NotNullColumnConstraint"
               THEN [st EXCEPT !.column.nullable = FALSE]
               ELSE IF kind.node = "UniqueColumnConstraint"
               THEN [st EXCEPT !.table =
                        add_index(@,
                            Index(constraint_name, <<Upper(st.column.name)>>,
                                  <<st.column.name>>, TRUE, ""),
                            constraint_name, "unique")]
               ELSE IF kind.node = "Reference"
               THEN [st EXCEPT !.table =
                        add_foreign_key(@,
                            ForeignKey(<<st.column.name>>, _table_name(kind.table),
                                       SeqMap(_column_name, kind.columns), ""),
                            constraint_name)]
               ELSE st
        done == Fold(One, [table |-> table, column |-> column, pk_constraint_name |-> ""],
                     constraints)
    IN IF done.column.is_primary_key /\ done.pk_constraint_name # ""
       THEN [done EXCEPT !.table = set_primary_key(@, @.primary_key, done.pk_constraint_name)]
       ELSE done

_ingest_column_definition(table, column_def) ==
    LET column == Column(_column_name(column_def.this), column_def.kind, TRUE, FALSE)
        done == _apply_column_constraints(table, column, column_def.constraints)
    IN add_column(done.table, done.column)

_ingest_table_element(table, element) ==
    IF element.node = "ColumnDef" THEN _ingest_column_definition(table, element)
    ELSE IF element.node = "Constraint" THEN _apply_constraint(table, element)
    ELSE IF element.node = "PrimaryKey" THEN _apply_primary_key(table, element, "")
    ELSE IF element.node = "ForeignKey" THEN _apply_foreign_key(table, element, "")
    ELSE IF element.node = "UniqueColumnConstraint"
    THEN _apply_unique_constraint(table, element, "")
    ELSE table

\* a hint is the triple <<local_column, ref_table, ref_columns>> of _extract_fk_hints
\* _apply_fk_hints that adds the foreign key of every hint without looking at
\* the foreign keys the table holds
ApplyHintsWithoutLooking(table, hints) ==
    LET One(t, hint) ==
            LET local_columns == <<hint[1]>>
                target_columns == IF hint[3] # <<>> THEN hint[3] ELSE local_columns
            IN IF hint[1] = "" \/ hint[2] = "" THEN t
               ELSE add_foreign_key(t, ForeignKey(local_columns, hint[2], target_columns, ""), "")
    IN Fold(One, table, hints)

_apply_fk_hints(table, hints) ==
    LET One(t, hint) ==
            LET local_columns == <<hint[1]>>
                target_columns == IF hint[3] # <<>> THEN hint[3] ELSE local_columns
                exists == \E i \in 1..Len(t.foreign_keys) :
                             /\ t.foreign_keys[i].columns = local_columns
                             /\ t.foreign_keys[i].ref_table = hint[2]
                             /\ t.foreign_keys[i].ref_columns = target_columns
            IN IF hint[1] = "" \/ hint[2] = "" \/ exists THEN t
               ELSE add_foreign_key(t, ForeignKey(local_columns, hint[2], target_columns, ""), "")
    IN Fold(One, table, hints)

-----------------------------------------------------------------------------
(* sql_parser.py: statement handlers *)

\* exp.Create for CREATE TABLE: this_is_schema is isinstance(statement.this, exp.Schema),
\* hints is what _extract_fk_hints finds in the raw statement text
CreateTable(table, expressions, hints) ==
    [node |-> "Create", kind |-> "TABLE", has_expression |-> FALSE, this_is_schema |-> TRUE,
     exists |-> FALSE, table |-> table, expressions |-> expressions, hints |-> hints]
\* the same statement written CREATE TABLE IF NOT EXISTS
IfNotExists(statement) == [statement EXCEPT !.exists = TRUE]
\* exp.Create for CREATE [UNIQUE] INDEX this ON table (columns) [WHERE where]; the
\* columns are plain column identifiers
CreateIndex(this, table, columns, unique, where) ==
    [node |-> "Create", kind |-> "INDEX", has_expression |-> FALSE, this_is_schema |-> FALSE,
     exists |-> FALSE, table |-> table, expressions |-> <<>>, hints |-> <<>>,
     this |-> this, columns |-> columns, unique |-> unique, where |-> where]
\* any other exp.Create (CREATE VIEW ..., CREATE TABLE ... AS SELECT ...)
CreateOther(kind, has_expression, table) ==
    [node |-> "Create", kind |-> kind, has_expression |-> has_expression,
     this_is_schema |-> FALSE, exists |-> FALSE, table |-> table, expressions |-> <<>>,
     hints |-> <<>>]
DropStmt(kind, this, mode) == [node |-> "Drop", kind |-> kind, this |-> this, mode |-> mode]
AlterStmt(kind, this, actions) ==
    [node |-> "Alter", kind |-> kind, this |-> this, actions |-> actions]
AlterColumn(this, dtype, has_allow_null, allow_null) ==
    [node |-> "AlterColumn", this |-> this, dtype |-> dtype,
     has_allow_null |-> has_allow_null, allow_null |-> allow_null]
AddConstraint(expressions) == [node |-> "AddConstraint", expressions |-> expressions]
DropAction(kind, this) == [node |-> "Drop", kind |-> kind, this |-> this]
RenameColumn(this, to) == [node |-> "RenameColumn", this |-> this, to |-> to]
AlterRename(this) == [node |-> "AlterRename", this |-> this]
\* exp.Command: matched is whether RENAME_CONSTRAINT_RE matches its text, and
\* table, old, new are the three groups of the match
Command(matched, table, old, new) ==
    [node |-> "Command", matched |-> matched, table |-> table, old |-> old, new |-> new]
\* a statement sqlglot parses into a node no handler is registered for
OtherStmt(node) == [node |-> node]
\* a statement on which sqlglot.parse raises exc
Unparseable(exc) == [node |-> "raise", exc |-> exc]
NoStmt == [node |-> "NoStmt"]

\* CREATE TABLE that leaves an existing table alone under IF NOT EXISTS
CreateTableHonouringIfNotExists(statement, s) ==
    LET table_name == _table_name(statement.table)
        s1 == SetDefault(s, table_name)
        cleared == [Get(s1, table_name) EXCEPT
                       !.columns = <<>>, !.primary_key = {}, !.foreign_keys = <<>>,
                       !.indexes = <<>>, !.constraint_types = <<>>, !.primary_key_name = ""]
        ingested == Fold(_ingest_table_element, cleared, statement.expressions)
        hinted == _apply_fk_hints(ingested, statement.hints)
    IN IF ~statement.this_is_schema \/ (statement.exists /\ table_name \in Keys(s)) THEN s
       ELSE Set(s1, table_name, sync_primary_key_flags(hinted))

_handle_create_table(statement, s) ==
    LET table_name == _table_name(statement.table)
        s1 == SetDefault(s, table_name)
        cleared == [Get(s1, table_name) EXCEPT
                       !.columns = <<>>, !.primary_key = {}, !.foreign_keys = <<>>,
                       !.indexes = <<>>, !.constraint_types = <<>>, !.primary_key_name = ""]
        ingested == Fold(_ingest_table_element, cleared, statement.expressions)
        hinted == _apply_fk_hints(ingested, statement.hints)
    IN IF ~statement.this_is_schema THEN s
       ELSE Set(s1, table_name, sync_primary_key_flags(hinted))

_handle_create_index(statement, s) ==
    LET table_name == _table_name(statement.table)
        s1 == SetDefault(s, table_name)
        column_names == SeqMap(_column_name, statement.columns)
        index == Index(_identifier_name(statement.this), SeqMap(Upper, column_names),
                       column_names, statement.unique, statement.where)
    IN Set(s1, table_name, add_index(Get(s1, table_name), index, "", ""))

\* the reason _handle_create records, "" when it records none
UnsupportedCreate(statement) ==
    IF statement.kind = "TABLE" /\ ~statement.has_expression THEN ""
    ELSE IF statement.kind = "INDEX" THEN ""
    ELSE "Unsupported CREATE " \o (IF statement.kind # "" THEN statement.kind ELSE "statement")

\* _handle_create that registers the named table before looking at the kind
CreateRegisteringTableFirst(statement, s) ==
    IF statement.kind = "TABLE" /\ ~statement.has_expression
    THEN _handle_create_table(statement, s)
    ELSE SetDefault(s, _table_name(statement.table))

_handle_create(statement, s) ==
    IF statement.kind = "TABLE" /\ ~statement.has_expression
    THEN _handle_create_table(statement, s)
    ELSE IF statement.kind = "INDEX" THEN _handle_create_index(statement, s)
    ELSE s

\* DROP TABLE that removes the table and leaves the foreign keys naming it
DropTableKeepingForeignKeys(table_name, s) == Pop(s, table_name)

\* DROP TABLE that strips the foreign keys and leaves their registry entries
DropTableKeepingRegistry(table_name, s) ==
    LET Strip1(e) ==
            LET Kept(fk) == fk.ref_table # table_name
            IN [e EXCEPT !.table.foreign_keys = SeqFilter(Kept, @)]
    IN IF table_name \notin Keys(s) THEN s ELSE SeqMap(Strip1, Pop(s, table_name))

_handle_drop_table(table_name, s) ==
    LET s1 == Pop(s, table_name)
        Cleaned(e) ==
            LET table == e.table
                Removed(fk) == fk.ref_table = table_name
                Kept(fk) == fk.ref_table # table_name
                removed == SeqFilter(Removed, table.foreign_keys)
                names == {Lower(removed[i].name) : i \in {j \in 1..Len(removed) : removed[j].name # ""}}
            IN IF removed = <<>> THEN e
               ELSE [e EXCEPT !.table.foreign_keys = SeqFilter(Kept, @),
                              !.table.constraint_types =
                                  [k \in DOMAIN @ \ names |-> @[k]]]
    IN IF table_name \notin Keys(s) THEN s ELSE SeqMap(Cleaned, s1)

\* the tables are tried in the order of the schema and the first one that holds
\* an index of the name drops it
_handle_drop(statement, s) ==
    LET target_name == _table_name(statement.this)
        holders == {i \in 1..Len(s) : has_index(s[i].table, target_name)}
        first_holder == CHOOSE i \in holders : \A j \in holders : i <= j
    IN IF statement.kind = "TABLE" THEN _handle_drop_table(target_name, s)
       ELSE IF statement.kind = "INDEX" /\ holders # {}
       THEN [s EXCEPT ![first_holder].table = drop_index(@, target_name)]
       ELSE s

\* one expression of an ADD CONSTRAINT action
_ingest_constraint_expr(table, expr) ==
    IF expr.node = "Constraint" THEN _apply_constraint(table, expr)
    ELSE IF expr.node = "PrimaryKey" THEN _apply_primary_key(table, expr, "")
    ELSE IF expr.node = "ForeignKey" THEN _apply_foreign_key(table, expr, "")
    ELSE IF expr.node = "UniqueColumnConstraint"
    THEN _apply_unique_constraint(table, expr, "")
    ELSE table

\* "." in name and name.rsplit(".", 1)[0], for the names _table_name and
\* _normalize_identifier build: a name of BaseNames under one or two qualifiers
QualifierNames == {"s", "S", "w", "W"}
DbNames == QualifierNames \cup {c \o "." \o d : c, d \in QualifierNames}
BaseNames == {"t", "u", "T", "U", "k", "p", "i", "j", "c", "d", "users", "orders"}
DottedNames == {d \o "." \o b : d \in DbNames, b \in BaseNames}
HasDot(name) == name \in DottedNames
Prefix(name) == CHOOSE d \in DbNames : \E b \in BaseNames : name = d \o "." \o b

\* one action of the ALTER TABLE list; st is the Schema and current_table_name
AlterAction(st, action) ==
    LET s == st.schema
        current_table_name == st.current_table_name
        current_table == Get(s, current_table_name)
        Put(table) == [st EXCEPT !.schema = Set(s, current_table_name, table)]
    IN IF action.node = "ColumnDef"
       THEN Put(_ingest_column_definition(current_table, action))
       ELSE IF action.node = "AlterColumn"
       THEN LET column_name == _column_name(action.this)
                t1 == IF action.dtype # ""
                      THEN update_data_type(current_table, column_name, action.dtype)
                      ELSE current_table
                t2 == IF action.has_allow_null
                      THEN update_nullable(t1, column_name, action.allow_null)
                      ELSE t1
            IN Put(t2)
       ELSE IF action.node = "AddConstraint"
       THEN Put(Fold(_ingest_constraint_expr, current_table, action.expressions))
       ELSE IF action.node = "Drop" /\ action.kind = "COLUMN"
       THEN Put(drop_column(current_table, _column_name(action.this)))
       ELSE IF action.node = "Drop" /\ action.kind = "CONSTRAINT"
       THEN IF _identifier_name(action.this) # ""
            THEN Put(drop_constraint(current_table, _identifier_name(action.this)))
            ELSE st
       ELSE IF action.node = "RenameColumn"
       THEN LET old_name == _column_name(action.this)
                new_name == _column_name(action.to)
            IN IF old_name # "" /\ new_name # "" /\ old_name # new_name
               THEN [st EXCEPT !.schema =
                        rename_column_in_schema(s, current_table_name, old_name, new_name)]
               ELSE st
       ELSE IF action.node = "AlterRename"
       THEN LET stated == _table_name(action.this)
                new_table_name ==
                    IF stated # "" /\ ~HasDot(stated) /\ HasDot(current_table_name)
                    THEN Prefix(current_table_name) \o "." \o stated
                    ELSE stated
            IN IF new_table_name # "" /\ new_table_name # current_table_name
               THEN [schema |-> rename_table(s, current_table_name, new_table_name),
                     current_table_name |-> new_table_name]
               ELSE st
       ELSE st

\* ALTER TABLE whose every action addresses the table name of the statement
AlterTableAddressingStatedName(statement, s) ==
    LET table_name == _table_name(statement.this)
        Stated(st, action) ==
            [schema |-> SetDefault(AlterAction(st, action).schema, table_name),
             current_table_name |-> table_name]
        done == Fold(Stated,
                     [schema |-> SetDefault(s, table_name), current_table_name |-> table_name],
                     statement.actions)
    IN Set(done.schema, done.current_table_name,
           sync_primary_key_flags(Get(done.schema, done.current_table_name)))

_handle_alter_table(statement, s) ==
    LET table_name == _table_name(statement.this)
        done == Fold(AlterAction,
                     [schema |-> SetDefault(s, table_name), current_table_name |-> table_name],
                     statement.actions)
    IN Set(done.schema, done.current_table_name,
           sync_primary_key_flags(Get(done.schema, done.current_table_name)))

\* one action of ALTER INDEX, on the Schema and the name the index bears by now
AlterIndexAction(st, action) ==
    LET new_name == _table_name(action.this)
        owners == {i \in 1..Len(st.schema) : has_index(st.schema[i].table, st.current_name)}
        owner == CHOOSE i \in owners : \A j \in owners : i <= j
    IN IF action.node # "AlterRename" THEN st
       ELSE IF new_name = "" \/ new_name = st.current_name THEN st
       ELSE IF owners = {} THEN st
       ELSE [schema |-> [st.schema EXCEPT ![owner].table =
                            rename_index(@, st.current_name, new_name)],
             current_name |-> new_name]

\* _handle_alter_index that renames the index on every table holding the name
AlterIndexOnEveryTable(statement, s) ==
    LET old_name == _table_name(statement.this)
        new_name == _table_name(statement.actions[1].this)
    IN IF new_name = "" THEN s
       ELSE [i \in 1..Len(s) |-> [s[i] EXCEPT !.table = rename_index(@, old_name, new_name)]]

_handle_alter_index(statement, s) ==
    Fold(AlterIndexAction, [schema |-> s, current_name |-> _table_name(statement.this)],
         statement.actions).schema

_handle_alter(statement, s) ==
    IF statement.kind = "INDEX" THEN _handle_alter_index(statement, s)
    ELSE _handle_alter_table(statement, s)

\* the Schema _handle_command leaves; it returns statement.matched
_handle_command(command, s) ==
    LET table_name == _normalize_identifier(command.table)
        old_name == _normalize_identifier(command.old)
        new_name == _normalize_identifier(command.new)
        s1 == SetDefault(s, table_name)
    IN IF ~command.matched THEN s
       ELSE Set(s1, table_name, rename_constraint(Get(s1, table_name), old_name, new_name))

-----------------------------------------------------------------------------
(* The statements the replay draws from *)

MaxStmts == 3

Id(text) == Identifier(text, FALSE)
Quoted(text) == Identifier(text, TRUE)
Tbl(text) == TableNode(NoIdentifier, Id(text))

TableNodes == {Tbl("t"), Tbl("u")}

Inline(kind) == ColumnConstraint(NoIdentifier, kind)

CreateBodies(ref) ==
    { <<ColumnDef(Id("c"), "int", <<Inline(PrimaryKeyColumnConstraint)>>)>>,
      <<ColumnDef(Id("c"), "int", <<ColumnConstraint(Id("p"), PrimaryKeyColumnConstraint)>>),
        ColumnDef(Id("d"), "int", <<Inline(Reference(ref, <<Id("c")>>))>>)>>,
      <<ColumnDef(Id("c"), "int", <<Inline(NotNullColumnConstraint)>>),
        Constraint(Id("K"), <<ForeignKeyExpr(<<Id("c")>>, Reference(ref, <<Id("c")>>))>>)>>,
      <<ColumnDef(Quoted("C"), "int", <<>>), ColumnDef(Id("d"), "int", <<>>),
        PrimaryKey(<<Quoted("C")>>)>> }

CreateStmts ==
    {CreateTable(t, body, <<>>) : t \in TableNodes, body \in UNION {CreateBodies(r) : r \in TableNodes}}
    \cup {CreateTable(t, <<ColumnDef(Id("c"), "int", <<>>)>>, <<<<"c", "u", <<>>>>>>) : t \in TableNodes}
    \cup {CreateTable(TableNode(NoIdentifier, Quoted("T")), <<ColumnDef(Id("c"), "int", <<>>)>>, <<>>),
          CreateIndex(Id("i"), Tbl("u"), <<Id("c")>>, FALSE, ""),
          CreateOther("VIEW", TRUE, Tbl("t")),
          CreateOther("TABLE", TRUE, Tbl("u"))}

AlterActions ==
    { ColumnDef(Id("d"), "int", <<>>),
      ColumnDef(Id("C"), "text", <<Inline(NotNullColumnConstraint)>>),
      AlterColumn(Id("c"), "text", FALSE, FALSE),
      AlterColumn(Id("c"), "", TRUE, FALSE),
      AddConstraint(<<Constraint(Id("p"), <<PrimaryKey(<<Id("c")>>)>>)>>),
      AddConstraint(<<ForeignKeyExpr(<<Id("d")>>, Reference(Tbl("t"), <<Id("d")>>))>>),
      AddConstraint(<<Constraint(Id("k"), <<UniqueColumnConstraint(<<Id("c")>>)>>)>>),
      DropAction("COLUMN", Id("c")),
      DropAction("CONSTRAINT", Id("k")),
      DropAction("CONSTRAINT", Quoted("P")),
      RenameColumn(Id("c"), Id("d")),
      RenameColumn(Id("d"), Id("c")),
      RenameColumn(Id("c"), Quoted("C")),
      AlterRename(Tbl("t")),
      AlterRename(Tbl("u")),
      AlterRename(TableNode(NoIdentifier, Quoted("T"))) }
    \cup {AddConstraint(<<Constraint(Id("k"),
                <<ForeignKeyExpr(<<Id("c")>>, Reference(r, <<Id("c")>>))>>)>>) : r \in TableNodes}

\* an action of no class the loop of _handle_alter_table knows
OtherAction == [node |-> "Other"]

AlterStmts ==
    {AlterStmt("TABLE", t, <<a>>) : t \in TableNodes, a \in AlterActions}
    \cup {AlterStmt("TABLE", Tbl("t"), <<AlterRename(Tbl("u")), ColumnDef(Id("d"), "int", <<>>)>>),
          AlterStmt("TABLE", Tbl("t"), <<ColumnDef(Id("d"), "int", <<>>), AlterRename(Tbl("u")),
                                         DropAction("COLUMN", Id("c"))>>),
          AlterStmt("TABLE", TableNode(Id("s"), Id("t")), <<AlterRename(Tbl("u"))>>),
          AlterStmt("TABLE", TableNode(Quoted("S"), Id("t")), <<AlterRename(Tbl("u"))>>),
          AlterStmt("TABLE", CatalogTableNode(Quoted("W"), Id("S"), Id("t")),
                    <<AlterRename(Tbl("u"))>>),
          AlterStmt("VIEW", Tbl("t"), <<AlterRename(Tbl("u"))>>),
          AlterStmt("VIEW", Tbl("t"), <<ColumnDef(Id("d"), "int", <<>>)>>),
          AlterStmt("SEQUENCE", Tbl("u"), <<OtherAction>>)}

DropStmts ==
    {DropStmt("TABLE", t, mode) : t \in TableNodes, mode \in {"", "CASCADE", "RESTRICT"}}
    \cup {DropStmt("VIEW", Tbl("t"), "")}

CommandStmts ==
    {Command(TRUE, Tbl("t"), Tbl("k"), Tbl("p")),
     Command(TRUE, TableNode(Quoted("S"), Id("t")), Tbl("k"), Tbl("p")),
     Command(FALSE, Tbl(""), Tbl(""), Tbl(""))}

OtherStmts == {OtherStmt("Insert")}

UnparseableStmts == {Unparseable("ParseError"), Unparseable("TokenError")}

-----------------------------------------------------------------------------
(* parse_schema_from_sql: one statement of the input per step *)

ParseFailure(raw_statement, reason) == [source |-> "", sql |-> raw_statement, reason |-> reason]

IsRenameStmt(stmt) ==
    /\ stmt.node = "Alter"
    /\ Len(stmt.actions) = 1
    /\ stmt.actions[1].node \in {"RenameColumn", "AlterRename"}

\* statements the loop body passes over without entering a handler that
\* touches the Schema: unparseable text, a CREATE or DROP of a kind other than
\* TABLE and INDEX, CREATE TABLE AS, a Command the fallback matcher does not
\* match, and a statement of no handled class
IsSkipped(stmt) ==
    \/ stmt.node = "raise"
    \/ stmt.node = "Create" /\ UnsupportedCreate(stmt) # ""
    \/ stmt.node = "Drop" /\ stmt.kind \notin {"TABLE", "INDEX"}
    \/ stmt.node = "Command" /\ ~stmt.matched
    \/ stmt.node \notin {"Create", "Alter", "Drop", "Command", "raise", "NoStmt"}

\* an exp.Alter of a kind other than TABLE and INDEX: the loop body does not
\* skip it, _handle_alter hands it to _handle_alter_table like an ALTER TABLE
IsAlterOfOtherKind(stmt) == stmt.node = "Alter" /\ stmt.kind \notin {"TABLE", "INDEX"}

\* the statements that fail to parse or are of an unsupported kind: the ones
\* the loop body skips, and the ALTER of another kind, which it does not skip
FailsOrUnsupported(stmt) == IsSkipped(stmt) \/ IsAlterOfOtherKind(stmt)

\* pairs of consecutive statements whose first pre-state is kept in "before"
Paired(a, b) ==
    \/ IsRenameStmt(a) /\ IsRenameStmt(b)
    \/ FailsOrUnsupported(a) /\ b.node \in {"Create", "Alter", "Drop"}
    \/ /\ a.node = "Create" /\ a.kind = "TABLE" /\ ~a.has_expression
       /\ b.node = "Drop" /\ b.kind = "TABLE"
    \/ /\ a.node = "Command" /\ a.matched
       /\ b.node = "Alter" /\ Len(b.actions) = 1
       /\ b.actions[1].node = "Drop" /\ b.actions[1].kind = "CONSTRAINT"

\* the body of the loop over the statements: the Schema it leaves
Dispatch(stmt, s) ==
    IF stmt.node = "Create" THEN _handle_create(stmt, s)
    ELSE IF stmt.node = "Alter" THEN _handle_alter(stmt, s)
    ELSE IF stmt.node = "Drop" THEN _handle_drop(stmt, s)
    ELSE IF stmt.node = "Command" THEN _handle_command(stmt, s)
    ELSE s

\* the reason of the failure the loop body records for stmt, "" when it records none
FailureReason(stmt) ==
    IF stmt.node = "raise" THEN "Parse error (" \o stmt.exc \o ")"
    ELSE IF stmt.node = "Create" THEN UnsupportedCreate(stmt)
    ELSE IF stmt.node = "Command"
    THEN (IF stmt.matched THEN "Parsed via generic command handler"
          ELSE "Unsupported SQL command")
    ELSE ""

\* the loop that ends parse_schema_from_sql
SyncTables(s) == [i \in 1..Len(s) |-> [s[i] EXCEPT !.table = sync_primary_key_flags(@)]]

\* parse_schema_from_sql on an input that is not blank: the loop over its
\* statements and then the closing loop.  (A blank input returns at once and
\* is no step.)
parse_schema_from_sql(statements, s) ==
    LET Body(acc, stmt) == Dispatch(stmt, acc)
    IN SyncTables(Fold(Body, s, statements))

\* One statement of a call of parse_schema_from_sql.  The calls follow each
\* other on one Schema (load_schema_from_migrations); "final" tells that stmt is
\* the last statement of its call, whose closing loop then runs in the same step.
Consume(stmt, final) ==
    /\ pos < MaxStmts
    /\ \E done \in {Dispatch(stmt, schema)} :
          schema' = IF final THEN SyncTables(done) ELSE done
    /\ failures' = IF FailureReason(stmt) = "" THEN failures
                   ELSE Append(failures, ParseFailure(stmt, FailureReason(stmt)))
    /\ pos' = pos + 1
    /\ last' = stmt
    /\ prev' = schema
    /\ first' = IF Paired(last, stmt) THEN last ELSE NoStmt
    /\ before' = IF Paired(last, stmt) THEN prev ELSE <<>>
    /\ dropped' = (dropped \cup (IF stmt.node = "Drop" /\ stmt.kind = "TABLE"
                                 THEN {_table_name(stmt.this)} \cap Keys(schema)
                                 ELSE {})) \ Keys(schema')
    /\ UNCHANGED diffVars
    /\ UNCHANGED splitVars
    /\ UNCHANGED cellVars

ParseError == \E stmt \in UnparseableStmts, final \in BOOLEAN : Consume(stmt, final)

HandleCreate == \E stmt \in CreateStmts, final \in BOOLEAN : Consume(stmt, final)

HandleAlter == \E stmt \in AlterStmts, final \in BOOLEAN : Consume(stmt, final)

HandleDrop == \E stmt \in DropStmts, final \in BOOLEAN : Consume(stmt, final)

HandleCommand == \E stmt \in CommandStmts, final \in BOOLEAN : Consume(stmt, final)

Ignore == \E stmt \in OtherStmts, final \in BOOLEAN : Consume(stmt, final)

EmptySnapshot == <<>>

Init ==
    /\ schema = <<>>
    /\ failures = <<>>
    /\ pos = 0
    /\ last = NoStmt
    /\ prev = <<>>
    /\ before = <<>>
    /\ first = NoStmt
    /\ dropped = {}
    /\ cells = <<>>
    /\ walk = <<>>
    /\ column_map = <<>>
    /\ mig = EmptySnapshot
    /\ dia = EmptySnapshot
    /\ diagram = <<>>
    /\ reports = <<>>
    /\ sql = <<>>
    /\ splits = <<>>

Next ==
    \/ ParseError
    \/ HandleCreate
    \/ HandleAlter
    \/ HandleDrop
    \/ HandleCommand
    \/ Ignore

Spec == Init /\ [][Next]_vars

-----------------------------------------------------------------------------
(* schema_diff.py: Snapshots *)

\* schema_diff._normalize_identifier
normalize_identifier(value) == Lower(Strip(value))

ForeignKeySummary(local_columns, ref_table, ref_columns) ==
    [local_columns |-> local_columns, ref_table |-> ref_table, ref_columns |-> ref_columns]

IndexSummary(columns, unique, where) == [columns |-> columns, unique |-> unique, where |-> where]

TableSummary(name, columns, foreign_keys, indexes) ==
    [name |-> name, columns |-> columns, foreign_keys |-> foreign_keys, indexes |-> indexes]

_table_columns(table) == {normalize_identifier(table.columns[i].name) : i \in 1..Len(table.columns)}

\* the summaries of the foreign keys as a tuple in the order of declaration
ForeignKeySummariesInDeclarationOrder(table) ==
    SeqMap(LAMBDA fk : ForeignKeySummary(SeqMap(normalize_identifier, fk.columns),
                                         normalize_identifier(fk.ref_table),
                                         SeqMap(normalize_identifier, fk.ref_columns)),
           table.foreign_keys)

_table_foreign_keys(table) ==
    {ForeignKeySummary(SeqMap(normalize_identifier, fk.columns),
                       normalize_identifier(fk.ref_table),
                       SeqMap(normalize_identifier, fk.ref_columns)) :
        fk \in Range(table.foreign_keys)}

_table_indexes(table) ==
    LET NonEmpty(col) == col # ""
        Names(idx) == IF idx.column_names # <<>> THEN idx.column_names ELSE idx.columns
    IN {IndexSummary(SeqMap(normalize_identifier, SeqFilter(NonEmpty, Names(idx))),
                     idx.unique, Lower(Strip(idx.where))) :
           idx \in Range(table.indexes)}

\* SchemaSnapshot.tables: the entry written last under a normalized key stays
snapshot_from_schema(s) ==
    [key \in {normalize_identifier(k) : k \in Keys(s)} |->
        LET hits == {i \in 1..Len(s) : normalize_identifier(s[i].key) = key}
            i == CHOOSE h \in hits : \A g \in hits : g <= h
        IN TableSummary(s[i].key, _table_columns(s[i].table),
                        _table_foreign_keys(s[i].table), _table_indexes(s[i].table))]

-----------------------------------------------------------------------------
(* Vocabulary of the properties of the replay *)

\* the foreign keys of a Schema, each with the key of the table holding it
ForeignKeysOf(s) ==
    UNION {{[key |-> s[i].key, fk |-> s[i].table.foreign_keys[j]] :
               j \in 1..Len(s[i].table.foreign_keys)} : i \in 1..Len(s)}

RefTablesOf(s) == UNION {{s[i].table.foreign_keys[j].ref_table :
                            j \in 1..Len(s[i].table.foreign_keys)} : i \in 1..Len(s)}

\* some foreign key names table r, and r is not a key of the Schema
Dangling(s, r) == r \notin Keys(s) /\ r \in RefTablesOf(s)

\* the tables the foreign-key clauses of a table element name
ElementRefs(element) ==
    IF element.node = "ColumnDef"
    THEN {_table_name(c.kind.table) : c \in {d \in Range(element.constraints) : d.kind.node = "Reference"}}
    ELSE IF element.node = "ForeignKey" /\ element.reference.node = "Reference"
    THEN {_table_name(element.reference.table)}
    ELSE IF element.node = "Constraint"
    THEN {_table_name(e.reference.table) :
            e \in {x \in Range(element.expressions) :
                      x.node = "ForeignKey" /\ x.reference.node = "Reference"}}
    ELSE {}

\* the tables the foreign-key clauses and hints of a statement name
StatementRefs(stmt) ==
    IF stmt.node = "Create"
    THEN UNION {ElementRefs(e) : e \in Range(stmt.expressions)}
         \cup {h[2] : h \in Range(stmt.hints)}
    ELSE IF stmt.node = "Alter"
    THEN UNION {IF a.node = "AddConstraint"
                THEN UNION {ElementRefs(e) : e \in Range(a.expressions)}
                ELSE ElementRefs(a) : a \in Range(stmt.actions)}
    ELSE {}

IsDropTable(stmt) == stmt.node = "Drop" /\ stmt.kind = "TABLE"

\* ALTER TABLE with the single action RENAME TO
IsTableRename(stmt) ==
    stmt.node = "Alter" /\ Len(stmt.actions) = 1 /\ stmt.actions[1].node = "AlterRename"

\* ALTER TABLE with the single action RENAME COLUMN
IsColumnRename(stmt) ==
    stmt.node = "Alter" /\ Len(stmt.actions) = 1 /\ stmt.actions[1].node = "RenameColumn"

\* ALTER TABLE with the single action DROP CONSTRAINT
IsDropConstraint(stmt) ==
    /\ stmt.node = "Alter" /\ Len(stmt.actions) = 1
    /\ stmt.actions[1].node = "Drop" /\ stmt.actions[1].kind = "CONSTRAINT"

\* the name a RENAME TO statement moves its table to
RenameTarget(stmt) ==
    LET stated == _table_name(stmt.actions[1].this)
        current == _table_name(stmt.this)
    IN IF ~HasDot(stated) /\ HasDot(current) THEN Prefix(current) \o "." \o stated ELSE stated

-----------------------------------------------------------------------------
(* Properties of the replay *)

\* C1 as stated: every foreign key names a table that is a key of the Schema or
\* a table not declared yet; none names a table that was declared and has
\* since been dropped.
C1_NoReferenceToDroppedTable ==
    \A r \in RefTablesOf(schema) : r \in Keys(schema) \/ r \notin dropped

\* C1 amended: after every statement, a foreign key names a table that is not
\* a key of the Schema only if a foreign key already named that absent table
\* before the statement or the statement itself declares a foreign key naming
\* it: no reference is left dangling by a drop or a rename of its target.
C1_DanglingOnlyByDeclaration ==
    \A r \in RefTablesOf(schema) :
        Dangling(schema, r) => Dangling(prev, r) \/ r \in StatementRefs(last)

\* DROP TABLE of a table that another table referenced
C1_Witness ==
    /\ IsDropTable(last)
    /\ _table_name(last.this) \in Keys(prev)
    /\ _table_name(last.this) \in RefTablesOf(Pop(prev, _table_name(last.this)))
    /\ schema # <<>>

\* the named foreign keys that DROP TABLE T removes from the tables that stay
RemovedNamed(T) ==
    {e \in ForeignKeysOf(prev) : e.key # T /\ e.fk.ref_table = T /\ e.fk.name # ""}

NoTraceOf(T) ==
    /\ T \notin Keys(schema)
    /\ T \notin RefTablesOf(schema)
    /\ \A e \in RemovedNamed(T) :
          e.key \in Keys(schema) /\ Lower(e.fk.name) \notin DOMAIN Get(schema, e.key).constraint_types

\* C2 as stated: after DROP TABLE T, in any mode, the Schema has no key T, no
\* foreign key naming T, and no registry entry of a foreign key removed for
\* naming T.
C2_DropTableLeavesNoTrace ==
    IsDropTable(last) => NoTraceOf(_table_name(last.this))

\* C2 amended: the same, for DROP TABLE T naming a table that is a key of the
\* Schema (DROP TABLE of an absent table changes nothing, so foreign keys that
\* name it ahead of its declaration stay).
C2_DropPresentTableLeavesNoTrace ==
    IsDropTable(last) /\ _table_name(last.this) \in Keys(prev)
        => NoTraceOf(_table_name(last.this))

\* DROP TABLE T right after CREATE TABLE T, removing a named foreign key elsewhere
C2_Witness ==
    /\ IsDropTable(last)
    /\ first.node = "Create" /\ _table_name(first.table) = _table_name(last.this)
    /\ _table_name(last.this) \in Keys(prev)
    /\ RemovedNamed(_table_name(last.this)) # {}

\* the statements first, last are ALTER TABLE A RENAME TO B, ALTER TABLE B RENAME TO A,
\* with B different from A, on a Schema that held A
TableRenamedThereAndBack ==
    /\ IsTableRename(first) /\ IsTableRename(last)
    /\ _table_name(first.this) # RenameTarget(first)
    /\ _table_name(last.this) = RenameTarget(first)
    /\ RenameTarget(last) = _table_name(first.this)
    /\ _table_name(first.this) \in Keys(before)

\* C3: renaming table A to B and then B to A, with no statement in between,
\* leaves a Schema whose Snapshot equals the Snapshot before the two renames.
C3_TableRenameRoundTrip ==
    TableRenamedThereAndBack => snapshot_from_schema(schema) = snapshot_from_schema(before)

\* the lists C4 speaks of: the columns and primary key of T, and the column
\* lists of every foreign key of the Schema
ColumnFacts(s, T) ==
    [columns |-> Get(s, T).columns,
     primary_key |-> Get(s, T).primary_key,
     foreign_keys |-> [i \in 1..Len(s) |->
                          [j \in 1..Len(s[i].table.foreign_keys) |->
                              <<s[i].table.foreign_keys[j].columns,
                                s[i].table.foreign_keys[j].ref_columns>>]]]

\* the statements first, last are RENAME COLUMN c TO c2, RENAME COLUMN c2 TO c,
\* with c2 different from c, on one table T, which held a column named c
ColumnRenamedThereAndBack ==
    /\ IsColumnRename(first) /\ IsColumnRename(last)
    /\ _table_name(first.this) = _table_name(last.this)
    /\ _column_name(first.actions[1].this) # _column_name(first.actions[1].to)
    /\ _column_name(last.actions[1].this) = _column_name(first.actions[1].to)
    /\ _column_name(last.actions[1].to) = _column_name(first.actions[1].this)
    /\ _table_name(first.this) \in Keys(before)
    /\ \E i \in 1..Len(Get(before, _table_name(first.this)).columns) :
          Get(before, _table_name(first.this)).columns[i].name
              = _column_name(first.actions[1].this)

\* C4: RENAME COLUMN c TO c2 followed immediately by RENAME COLUMN c2 TO c
\* restores the column list and primary-key set of T and the local and
\* referenced column lists of every foreign key of the Schema.
C4_ColumnRenameRoundTrip ==
    ColumnRenamedThereAndBack
        => ColumnFacts(schema, _table_name(last.this)) = ColumnFacts(before, _table_name(last.this))


\* the last statement is ALTER TABLE T DROP CONSTRAINT k, and k is not in the
\* constraint registry of T
DropsUnregisteredConstraint ==
    /\ IsDropConstraint(last)
    /\ _identifier_name(last.actions[1].this) # ""
    /\ \/ _table_name(last.this) \notin Keys(prev)
       \/ Lower(_identifier_name(last.actions[1].this))
              \notin DOMAIN Get(prev, _table_name(last.this)).constraint_types

\* C5 as stated: DROP CONSTRAINT of a name that is not in the registry of the
\* addressed table leaves the whole Schema unchanged.
C5_DropUnregisteredConstraintIsNoOp ==
    DropsUnregisteredConstraint => schema = prev

\* C5 amended: DROP CONSTRAINT of a name that is not in the registry of the
\* addressed table leaves the whole Schema unchanged when that table is a key
\* of the Schema (ALTER TABLE of an unknown table first creates it, empty).
C5_DropUnregisteredConstraintOnKnownTable ==
    DropsUnregisteredConstraint /\ _table_name(last.this) \in Keys(prev) => schema = prev

\* DROP CONSTRAINT of an unregistered name on a table holding a primary key
\* and other registered constraints
C5_Witness ==
    /\ DropsUnregisteredConstraint
    /\ _table_name(last.this) \in Keys(prev)
    /\ Get(prev, _table_name(last.this)).primary_key # {}
    /\ DOMAIN Get(prev, _table_name(last.this)).constraint_types # {}

\* the last statement is ALTER TABLE T RENAME TO N with N different from T
RenamesTable ==
    /\ IsTableRename(last)
    /\ RenameTarget(last) # ""
    /\ RenameTarget(last) # _table_name(last.this)

\* C6: renaming T to N removes key T, stores the table under N with name N,
\* rewrites ref_table T to N in the foreign keys of every other table and of
\* the renamed table itself, and changes no other foreign key.
C6_TableRenameRekeysAndRewrites ==
    RenamesTable =>
        LET T == _table_name(last.this)
            N == RenameTarget(last)
            pre == SetDefault(prev, T)
            Rewritten(fk) == IF fk.ref_table = T THEN [fk EXCEPT !.ref_table = N] ELSE fk
        IN /\ T \notin Keys(schema)
           /\ Keys(schema) = (Keys(pre) \ {T}) \cup {N}
           /\ Get(schema, N) = [Get(pre, T) EXCEPT !.name = N,
                                                   !.foreign_keys = SeqMap(Rewritten, @)]
           /\ \A k \in Keys(schema) \ {N} :
                 Get(schema, k) = [Get(pre, k) EXCEPT !.foreign_keys = SeqMap(Rewritten, @)]

\* a rename of a table that references itself and is referenced by another table
C6_Witness ==
    /\ RenamesTable
    /\ _table_name(last.this) \in Keys(prev)
    /\ \E e \in ForeignKeysOf(prev) :
          e.key = _table_name(last.this) /\ e.fk.ref_table = _table_name(last.this)
    /\ \E e \in ForeignKeysOf(schema) :
          e.key # RenameTarget(last) /\ e.fk.ref_table = RenameTarget(last)

\* the last statement is ALTER TABLE T RENAME COLUMN c TO c2 with c2 different from c
RenamesColumn ==
    /\ IsColumnRename(last)
    /\ _column_name(last.actions[1].this) # ""
    /\ _column_name(last.actions[1].to) # ""
    /\ _column_name(last.actions[1].this) # _column_name(last.actions[1].to)

\* C7: RENAME COLUMN c TO c2 on T updates, in the one statement, the column
\* list and primary-key set of T, the local columns of the foreign keys of T,
\* the referenced columns of the foreign keys of T that name T, and the
\* referenced columns of the foreign keys of other tables that name T; no
\* foreign key naming T lists c as a referenced column afterwards.
C7_ColumnRenameIsSchemaWide ==
    RenamesColumn =>
        LET T == _table_name(last.this)
            c == _column_name(last.actions[1].this)
            c2 == _column_name(last.actions[1].to)
            pre == SetDefault(prev, T)
            New(col) == IF Lower(col) = Lower(c) THEN c2 ELSE col
            NewFk(key, fk) ==
                [fk EXCEPT !.columns = IF key = T THEN SeqMap(New, @) ELSE @,
                           !.ref_columns = IF fk.ref_table = T THEN SeqMap(New, @) ELSE @]
        IN /\ Keys(schema) = Keys(pre)
           /\ SeqMap(LAMBDA col : col.name, Get(schema, T).columns)
                 = SeqMap(LAMBDA col : New(col.name), Get(pre, T).columns)
           /\ Get(schema, T).primary_key = {New(col) : col \in Get(pre, T).primary_key}
           /\ \A k \in Keys(schema) :
                 Get(schema, k).foreign_keys
                     = SeqMap(LAMBDA fk : NewFk(k, fk), Get(pre, k).foreign_keys)
           /\ \A e \in ForeignKeysOf(schema) :
                 e.fk.ref_table = T => c \notin Range(e.fk.ref_columns)

\* a rename of a primary-key column that another table's foreign key references
C7_Witness ==
    /\ RenamesColumn
    /\ _table_name(last.this) \in Keys(prev)
    /\ _column_name(last.actions[1].this) \in Get(prev, _table_name(last.this)).primary_key
    /\ \E e \in ForeignKeysOf(prev) :
          /\ e.key # _table_name(last.this)
          /\ e.fk.ref_table = _table_name(last.this)
          /\ _column_name(last.actions[1].this) \in Range(e.fk.ref_columns)

\* C8: a statement that fails to parse or is of an unsupported kind leaves the
\* Schema as it was, and the statement after it is applied as if the skipped
\* one were not there.
C8_SkippedStatementChangesNothing ==
    /\ FailsOrUnsupported(last) => schema = prev /\ pos >= 1
    /\ FailsOrUnsupported(first) =>
          prev = before /\ schema = Dispatch(last, before) /\ pos >= 2

\* a skipped statement between two statements that each changed the Schema
C8_Witness ==
    /\ IsSkipped(first)
    /\ before # <<>>
    /\ last.node = "Create"
    /\ schema # before
    /\ failures # <<>>

\* every statement the loop body skips (all of the above but an ALTER of another
\* kind) leaves the Schema as it was, and the statement after it yields what it
\* yields without it
C8_SkippedButAlterOfOtherKindChangesNothing ==
    /\ IsSkipped(last) => schema = prev /\ pos >= 1
    /\ IsSkipped(first) => prev = before /\ schema = Dispatch(last, before) /\ pos >= 2

\* an ALTER of another kind with no action the handler knows has added a table
C8_AlterWithoutKnownActionAddsTable ==
    /\ IsAlterOfOtherKind(last)
    /\ last.actions = <<OtherAction>>
    /\ _table_name(last.this) \notin Keys(prev)
    /\ _table_name(last.this) \in Keys(schema)

\* an ALTER of another kind has added a table to an empty Schema
C8_AlterOfOtherKindAddsTable ==
    /\ IsAlterOfOtherKind(last)
    /\ prev = <<>>
    /\ schema # <<>>

\* an ALTER of another kind has renamed a table that a CREATE TABLE made
C8_AlterOfOtherKindRenamesTable ==
    /\ IsAlterOfOtherKind(last)
    /\ IsRenameStmt(last)
    /\ _table_name(last.this) \in Keys(prev)
    /\ Get(prev, _table_name(last.this)).columns # <<>>
    /\ _table_name(last.this) \notin Keys(schema)

\* a DROP of another kind has been replayed on a Schema holding the named table
C8_DropOfOtherKindSkipped ==
    /\ last.node = "Drop" /\ last.kind \notin {"TABLE", "INDEX"}
    /\ _table_name(last.this) \in Keys(prev)

\* CREATE TABLE name (...), with or without IF NOT EXISTS
IsCreateTable(stmt) ==
    stmt.node = "Create" /\ stmt.kind = "TABLE" /\ ~stmt.has_expression /\ stmt.this_is_schema

\* ALTER TABLE T with the single action ADD COLUMN, T a key of the Schema
IsAddColumn(stmt) ==
    stmt.node = "Alter" /\ Len(stmt.actions) = 1 /\ stmt.actions[1].node = "ColumnDef"

ColumnNames(table) == {table.columns[i].name : i \in 1..Len(table.columns)}

\* C16: names are stored and compared in normalized form (a quoted identifier
\* verbatim, an unquoted one in lower case), and two names denote the same
\* column or constraint of a table exactly when their normalized forms are
\* equal: ADD COLUMN of a name whose normalized form no column of the table
\* bears appends a column of that name and leaves the other columns as they
\* were, and DROP CONSTRAINT of a name whose normalized form is not in the
\* registry of the table changes nothing.
C16_IdentityIsNormalizedName ==
    /\ IsAddColumn(last) /\ _table_name(last.this) \in Keys(prev)
          /\ _column_name(last.actions[1].this) # ""
          /\ _column_name(last.actions[1].this)
                \notin ColumnNames(Get(prev, _table_name(last.this)))
       => LET before_columns == Get(prev, _table_name(last.this)).columns
              after_columns == Get(schema, _table_name(last.this)).columns
          IN /\ Len(after_columns) = Len(before_columns) + 1
             /\ after_columns[Len(after_columns)].name = _column_name(last.actions[1].this)
             /\ SubSeq(after_columns, 1, Len(before_columns)) = before_columns
    /\ IsDropConstraint(last) /\ _table_name(last.this) \in Keys(prev)
          /\ _identifier_name(last.actions[1].this)
                \notin DOMAIN Get(prev, _table_name(last.this)).constraint_types
       => schema = prev

\* ALTER TABLE with more than one action
IsMultiAlter(stmt) == stmt.node = "Alter" /\ stmt.kind = "TABLE" /\ Len(stmt.actions) >= 2

\* the table name the handle of an ALTER TABLE addresses after the actions
RECURSIVE NameAfter(_, _)
NameAfter(name, actions) ==
    IF actions = <<>> THEN name
    ELSE LET stated == IF Head(actions).node = "AlterRename"
                       THEN _table_name(Head(actions).this) ELSE ""
             target == IF stated # "" /\ ~HasDot(stated) /\ HasDot(name)
                       THEN Prefix(name) \o "." \o stated ELSE stated
         IN NameAfter(IF target # "" THEN target ELSE name, Tail(actions))

\* a table node that names the table
NodeOf(name) ==
    CHOOSE node \in TableNodes \cup {TableNode(NoIdentifier, Quoted("T")),
                                     TableNode(Id("s"), Id("t")), TableNode(Id("s"), Id("u"))} :
        _table_name(node) = name

\* C18: the actions of one ALTER TABLE are applied left to right, each to the
\* table the handle addresses then: cut anywhere, the statement does what its
\* first actions as one statement followed by its later actions as a statement
\* naming the table's name at the cut would do; so after RENAME TO the later
\* actions change the table stored under the new name, and the old name is
\* not a key of the Schema.
C18_ActionsLeftToRightOnCurrentTable ==
    IsMultiAlter(last) =>
        LET T == _table_name(last.this)
            n == Len(last.actions)
        IN /\ \A r \in 1..(n - 1) :
                 LET head == [last EXCEPT !.actions = SubSeq(@, 1, r)]
                     rest == [last EXCEPT !.this = NodeOf(NameAfter(T, SubSeq(last.actions, 1, r))),
                                          !.actions = SubSeq(@, r + 1, n)]
                 IN schema = Dispatch(rest, Dispatch(head, prev))
           /\ NameAfter(T, last.actions) # T =>
                 /\ T \notin Keys(schema)
                 /\ NameAfter(T, last.actions) \in Keys(schema)
                 /\ Get(schema, NameAfter(T, last.actions)).name = NameAfter(T, last.actions)

\* ALTER TABLE t ADD COLUMN d, RENAME TO u, DROP COLUMN c on a table t that
\* held column c, while a table u existed
C18_Witness ==
    /\ IsMultiAlter(last)
    /\ Len(last.actions) = 3
    /\ last.actions[2].node = "AlterRename"
    /\ {"t", "u"} \subseteq Keys(prev)
    /\ "c" \in ColumnNames(Get(prev, "t"))
    /\ "t" \notin Keys(schema)
    /\ ColumnNames(Get(schema, "u")) = (ColumnNames(Get(prev, "t")) \ {"c"}) \cup {"d"}

\* the statements that take their table with setdefault: an ALTER of any kind
\* but INDEX, CREATE INDEX and the ALTER TABLE ... RENAME CONSTRAINT the
\* fallback matcher handles
MentionsTable(stmt) ==
    \/ stmt.node = "Alter" /\ stmt.kind # "INDEX"
    \/ stmt.node = "Create" /\ stmt.kind = "INDEX"
    \/ stmt.node = "Command" /\ stmt.matched

\* the table name a statement states
Stated(stmt) ==
    IF stmt.node = "Create" THEN _table_name(stmt.table)
    ELSE IF stmt.node = "Command" THEN _normalize_identifier(stmt.table)
    ELSE IF stmt.node \in {"Alter", "Drop"} THEN _table_name(stmt.this)
    ELSE ""

\* the name the stated table goes by after the statement
NameLeft(stmt) ==
    IF stmt.node = "Alter" /\ stmt.kind # "INDEX" THEN NameAfter(Stated(stmt), stmt.actions)
    ELSE Stated(stmt)

\* what C22 says of one statement, a rename of T onto N counting as T going
\* on under the name N
TableLifecycleStep ==
    /\ IsCreateTable(last) \/ MentionsTable(last) =>
          /\ NameLeft(last) \in Keys(schema)
          /\ Keys(schema) \ Keys(prev) \subseteq {NameLeft(last)}
          /\ Keys(prev) \ Keys(schema) \subseteq {Stated(last)}
    /\ MentionsTable(last) /\ Stated(last) \notin Keys(prev) =>
          Get(schema, NameLeft(last)) = Get(Dispatch(last, <<>>), NameLeft(last))
    /\ IsDropTable(last) =>
          IF Stated(last) \in Keys(prev)
          THEN Keys(schema) = Keys(prev) \ {Stated(last)}
          ELSE schema = prev
    /\ ~(IsCreateTable(last) \/ MentionsTable(last) \/ IsDropTable(last)) =>
          Keys(schema) = Keys(prev)

\* the number of tables the statement adds to the Schema (negative: removes)
TablesAdded ==
    IF IsDropTable(last) /\ Stated(last) \in Keys(prev) THEN 0 - 1
    ELSE IF (IsCreateTable(last) \/ MentionsTable(last)) /\ Stated(last) \notin Keys(prev) THEN 1
    ELSE 0

\* C22: a table is in the Schema from its first CREATE TABLE, or from the
\* first ALTER TABLE or CREATE INDEX naming it while it is not there (which
\* adds an empty table and applies the statement to it), until a DROP TABLE
\* naming it: no other statement adds or removes a table, and DROP TABLE of a
\* name that is not a key changes nothing.
C22_TableLifecycle ==
    /\ TableLifecycleStep
    /\ Len(schema) = Len(prev) + TablesAdded

\* the same, but for the table that RENAME TO replaces when the new name is
\* the key of another table
C22_TableLifecycleBarringRenameOntoKey ==
    /\ TableLifecycleStep
    /\ ~(NameLeft(last) # Stated(last) /\ NameLeft(last) \in Keys(prev)) =>
          Len(schema) = Len(prev) + TablesAdded

\* the statement is taken by _handle_create, _handle_alter or _handle_drop and supported there
MatchesMainHandler(stmt) ==
    /\ stmt.node \in {"Create", "Alter", "Drop"}
    /\ stmt.node = "Create" => UnsupportedCreate(stmt) = ""

\* the statement is an exp.Command that RENAME_CONSTRAINT_RE matches
MatchesFallback(stmt) == stmt.node = "Command" /\ stmt.matched

\* the statement is an exp.Command that RENAME_CONSTRAINT_RE does not match
MatchesNeither(stmt) == stmt.node = "Command" /\ ~stmt.matched

\* C23: the parse-failure list holds no record of a statement that a main
\* handler or the RENAME CONSTRAINT fallback handled, and a statement that
\* matches neither has its record at the end of the list once it is replayed
C23_FailureOnlyWhenUnhandled ==
    /\ \A i \in 1..Len(failures) :
          ~MatchesMainHandler(failures[i].sql) /\ ~MatchesFallback(failures[i].sql)
    /\ MatchesNeither(last) =>
          failures # <<>> /\ failures[Len(failures)] = ParseFailure(last, "Unsupported SQL command")

\* C23, as the code has it: every exp.Command adds exactly one record, whose
\* reason tells the handled statement from the unsupported one; the handled one
\* renames the constraint, the unsupported one leaves the Schema alone; a
\* statement a main handler supports adds none
C23_OneRecordPerCommand ==
    [][pos' = pos + 1 =>
          /\ MatchesFallback(last') =>
                /\ failures' = Append(failures, ParseFailure(last', "Parsed via generic command handler"))
                /\ schema' = _handle_command(last', schema)
          /\ MatchesNeither(last') =>
                /\ failures' = Append(failures, ParseFailure(last', "Unsupported SQL command"))
                /\ schema' = schema
          /\ MatchesMainHandler(last') => failures' = failures]_vars

\* the flag of every column of the table says whether the table's primary-key
\* set holds the column's name, compared case-insensitively
FlagsMatchPrimaryKey(table) ==
    \A i \in 1..Len(table.columns) :
        table.columns[i].is_primary_key <=>
            \E col \in table.primary_key : Lower(col) = Lower(table.columns[i].name)

\* the flag of the column of that name in the table, FALSE when it has none
FlagOf(table, column_name) ==
    \E i \in 1..Len(table.columns) :
        table.columns[i].name = column_name /\ table.columns[i].is_primary_key

\* C24: after every replayed statement the primary-key flag of every column of
\* every table is true exactly when the column's name, compared
\* case-insensitively, is in the table's primary-key set
C24_FlagsFollowPrimaryKey ==
    \A key \in Keys(schema) : FlagsMatchPrimaryKey(Get(schema, key))

\* an ALTER TABLE turned the flag of a column on or off (set primary key, drop
\* constraint, re-added column), next to a column whose flag is off
C24_Witness ==
    /\ last.node = "Alter"
    /\ \E key \in Keys(schema) \cap Keys(prev) :
          LET table == Get(schema, key)
          IN /\ \E i \in 1..Len(table.columns) :
                   FlagOf(table, table.columns[i].name) # FlagOf(Get(prev, key), table.columns[i].name)
             /\ \E i \in 1..Len(table.columns) : ~table.columns[i].is_primary_key
             /\ table.primary_key # {}

\* ALTER TABLE with the single action DROP COLUMN
IsDropColumn(stmt) ==
    /\ stmt.node = "Alter" /\ Len(stmt.actions) = 1
    /\ stmt.actions[1].node = "Drop" /\ stmt.actions[1].kind = "COLUMN"

\* the names of the table's columns, in the order of its column list
NameList(table) == [i \in 1..Len(table.columns) |-> table.columns[i].name]

\* no two columns of the table bear names that are equal case-insensitively
DistinctColumns(table) ==
    \A i, j \in 1..Len(table.columns) :
        i # j => Lower(table.columns[i].name) # Lower(table.columns[j].name)

RECURSIVE Without(_, _)
\* the names of the list that differ case-insensitively from the given name
Without(names, name) ==
    IF names = <<>> THEN <<>>
    ELSE IF Lower(Head(names)) = Lower(name) THEN Without(Tail(names), name)
    ELSE <<Head(names)>> \o Without(Tail(names), name)

\* an add, drop or rename of a column leaves the columns that remain in the
\* order they had: a new name goes to the end, a re-added one keeps its place
\* and its stored name, a dropped one leaves a gap, a renamed one keeps its place
ColumnOrderKept ==
    LET T == _table_name(last.this)
        before_names == NameList(Get(prev, T))
        after_names == NameList(Get(schema, T))
        name == _column_name(last.actions[1].this)
    IN /\ (IsAddColumn(last) /\ T \in Keys(prev) /\ name # "") =>
              after_names = IF \E i \in 1..Len(before_names) : Lower(before_names[i]) = Lower(name)
                            THEN before_names ELSE Append(before_names, name)
       /\ (IsDropColumn(last) /\ T \in Keys(prev) /\ name # "") =>
              after_names = Without(before_names, name)
       /\ (RenamesColumn /\ T \in Keys(prev)) =>
              after_names = RenameIn(before_names, Lower(name), _column_name(last.actions[1].to))

\* the last statement is RENAME COLUMN c TO d on a table that has both a
\* column c and another column d
RenamesOntoColumn ==
    /\ RenamesColumn
    /\ _table_name(last.this) \in Keys(prev)
    /\ LET table == Get(prev, _table_name(last.this))
           old_key == Lower(_column_name(last.actions[1].this))
           new_key == Lower(_column_name(last.actions[1].to))
       IN /\ old_key # new_key
          /\ \E i, j \in 1..Len(table.columns) :
                Lower(table.columns[i].name) = old_key /\ Lower(table.columns[j].name) = new_key

\* C25: no table holds two columns whose names are equal case-insensitively,
\* and the columns that an add, drop or rename of a column leaves keep the
\* relative order in which they were added
C25_ColumnsDistinctAndOrdered ==
    /\ \A key \in Keys(schema) : DistinctColumns(Get(schema, key))
    /\ ColumnOrderKept

\* C25, apart from a rename onto the name of another column of the table: a
\* statement that finds every table with distinct column names leaves every
\* table so, and the order is kept throughout
C25_ColumnsDistinctUnlessRenamedOnto ==
    /\ ((\A key \in Keys(prev) : DistinctColumns(Get(prev, key))) /\ ~RenamesOntoColumn) =>
          \A key \in Keys(schema) : DistinctColumns(Get(schema, key))
    /\ ColumnOrderKept

\* C26: every key of the Schema maps to a Table whose name is the key, and no
\* Table is stored under two keys (a Table has one name, so it could bear the
\* name of one of the two keys only; the entries of the Schema have distinct keys)
C26_KeyIsTableName ==
    /\ \A i \in 1..Len(schema) : schema[i].table.name = schema[i].key
    /\ \A i, j \in 1..Len(schema) : i # j => schema[i].key # schema[j].key

\* a table was renamed next to another table, after which the old key is gone
C26_Witness ==
    /\ RenamesTable
    /\ _table_name(last.this) \in Keys(prev)
    /\ _table_name(last.this) \notin Keys(schema)
    /\ RenameTarget(last) \in Keys(schema)
    /\ Len(schema) >= 2

-----------------------------------------------------------------------------
(* ALTER INDEX ... RENAME TO: replays of CREATE INDEX and ALTER INDEX *)

IndexNames == {"i", "j", "k"}

IndexStmts ==
    { CreateIndex(Id("i"), Tbl("t"), <<Id("c")>>, FALSE, ""),
      CreateIndex(Id("i"), Tbl("u"), <<Id("c")>>, FALSE, ""),
      CreateIndex(Id("j"), Tbl("t"), <<Id("d")>>, TRUE, ""),
      AlterStmt("INDEX", Tbl("i"), <<AlterRename(Tbl("j")), AlterRename(Tbl("k"))>>),
      AlterStmt("INDEX", Tbl("k"), <<AlterRename(Tbl("j")), AlterRename(Tbl("i"))>>),
      AlterStmt("INDEX", Tbl("i"), <<AlterRename(Tbl("i")), AlterRename(Tbl("j"))>>),
      DropStmt("TABLE", Tbl("t"), ""),
      DropStmt("INDEX", Tbl("i"), ""),
      DropStmt("INDEX", Tbl("k"), ""),
      CreateIndex(Id("i"), TableNode(Quoted("S"), Quoted("T")), <<Id("c")>>, FALSE, ""),
      CreateIndex(Id("j"), CatalogTableNode(Quoted("W"), Id("S"), Id("t")), <<Id("c")>>, FALSE, ""),
      AlterStmt("TABLE", Tbl("u"),
                <<AddConstraint(<<Constraint(Id("k"), <<UniqueColumnConstraint(<<Id("c")>>)>>),
                                  UniqueColumnConstraint(<<Id("c"), Id("d")>>)>>)>>) }
    \cup {AlterStmt("INDEX", Tbl(a), <<AlterRename(Tbl(b))>>) : a, b \in IndexNames}

ReplayIndex == \E stmt \in IndexStmts, final \in BOOLEAN : Consume(stmt, final)

NextIndex == ReplayIndex

SpecIndex == Init /\ [][NextIndex]_vars

\* ALTER INDEX with the single action RENAME TO
IsIndexRename(stmt) ==
    /\ stmt.node = "Alter" /\ stmt.kind = "INDEX"
    /\ Len(stmt.actions) = 1 /\ stmt.actions[1].node = "AlterRename"

\* ALTER INDEX with two RENAME TO actions
IsIndexRenameChain(stmt) ==
    /\ stmt.node = "Alter" /\ stmt.kind = "INDEX"
    /\ Len(stmt.actions) = 2
    /\ \A i \in 1..2 : stmt.actions[i].node = "AlterRename"

\* the keys of the tables that hold an index of that name
Holders(s, index_name) ==
    {key \in Keys(s) : \E i \in 1..Len(Get(s, key).indexes) :
                          Get(s, key).indexes[i].name = index_name}

\* the table with its indexes of the old name bearing the new name
WithIndexRenamed(table, old_name, new_name) ==
    [table EXCEPT !.indexes =
        [i \in 1..Len(@) |-> [name |-> IF @[i].name = old_name THEN new_name ELSE @[i].name,
                              columns |-> @[i].columns,
                              column_names |-> @[i].column_names,
                              unique |-> @[i].unique,
                              where |-> @[i].where]]]

\* C27: ALTER INDEX old RENAME TO new renames the index on exactly one of the
\* tables that hold an index named old and leaves every other table as it was;
\* when no table holds such an index, or new equals old, the Schema is
\* unchanged; of two rename actions in one statement the second looks up the
\* name the first has produced (the stated name when the first renamed nothing)
C27_AlterIndexRenamesOnOneTable ==
    /\ IsIndexRename(last) =>
          LET old_name == _table_name(last.this)
              new_name == _table_name(last.actions[1].this)
          IN IF Holders(prev, old_name) = {} \/ new_name = old_name
             THEN schema = prev
             ELSE /\ Keys(schema) = Keys(prev)
                  /\ \E owner \in Holders(prev, old_name) :
                        /\ Get(schema, owner) = WithIndexRenamed(Get(prev, owner), old_name, new_name)
                        /\ \A key \in Keys(prev) \ {owner} : Get(schema, key) = Get(prev, key)
    /\ IsIndexRenameChain(last) =>
          LET old_name == _table_name(last.this)
              new_name == _table_name(last.actions[1].this)
              produced == IF Holders(prev, old_name) = {} \/ new_name = old_name
                          THEN old_name ELSE new_name
          IN schema = Dispatch(AlterStmt("INDEX", Tbl(produced), <<last.actions[2]>>),
                               Dispatch(AlterStmt("INDEX", last.this, <<last.actions[1]>>), prev))

\* two tables held an index of the old name and the statement renamed one of them
C27_Witness ==
    /\ IsIndexRename(last)
    /\ Cardinality(Holders(prev, _table_name(last.this))) = 2
    /\ Cardinality(Holders(schema, _table_name(last.this))) = 1
    /\ Cardinality(Holders(schema, _table_name(last.actions[1].this))) = 1

\* a statement of two rename actions renamed the index twice
C27_ChainReached ==
    /\ IsIndexRenameChain(last)
    /\ Holders(prev, "i") # {}
    /\ Holders(schema, "k") # {} /\ Holders(prev, "k") = {}

-----------------------------------------------------------------------------
(* schema_diff.py: the diff report *)

\* the strings the Snapshots below are built from, in the order of Python's
\* comparison of str (code point order)
StringOrder ==
    <<"", "T", "c", "c > 0", "d", "email", "id", "orders", "t", "u", "user_id", "users">>

StrRank(text) == CHOOSE i \in 1..Len(StringOrder) : StringOrder[i] = text

StrLess(a, b) == StrRank(a) < StrRank(b)

\* comparison of two tuples of str
RECURSIVE TupleLess(_, _)
TupleLess(a, b) ==
    IF a = <<>> THEN b # <<>>
    ELSE IF b = <<>> THEN FALSE
    ELSE IF Head(a) = Head(b) THEN TupleLess(Tail(a), Tail(b))
    ELSE StrLess(Head(a), Head(b))

\* sorted(iterable, key=...): a stable sort; an element goes behind every
\* earlier element whose key is not greater
RECURSIVE sorted(_, _)
sorted(Less(_, _), seq) ==
    IF seq = <<>> THEN <<>>
    ELSE LET rest == sorted(Less, SubSeq(seq, 1, Len(seq) - 1))
             item == seq[Len(seq)]
             n == Cardinality({i \in 1..Len(rest) : ~Less(item, rest[i])})
         IN SubSeq(rest, 1, n) \o <<item>> \o SubSeq(rest, n + 1, Len(rest))

\* the elements of a set in the order the set hands them out, which follows
\* the hash order of the elements
Iterate(set, order) == SeqFilter(LAMBDA item : item \in set, order)

\* sorted(set of str): the keys are the elements and no two are equal, so
\* the result is the same for every iteration order
SortedStrings(set) == sorted(StrLess, Iterate(set, StringOrder))

\* sep.join(items)
RECURSIVE Flatten(_)
Flatten(lists) == IF lists = <<>> THEN <<>> ELSE Head(lists) \o Flatten(Tail(lists))

_format_column_list(columns) == Join(sorted(StrLess, columns), ", ")

_format_fk(table_name, summary) ==
    LET local == IF _format_column_list(summary.local_columns) = "" THEN "<none>"
                 ELSE _format_column_list(summary.local_columns)
        ref_columns == _format_column_list(summary.ref_columns)
        target == IF summary.ref_table = "" THEN "<unknown>" ELSE summary.ref_table
        ref_part == IF ref_columns # "" THEN target \o "." \o ref_columns ELSE target
    IN table_name \o ": (" \o local \o ") -> " \o ref_part

_format_index(table_name, summary) ==
    LET prefix == IF summary.unique THEN "Unique " ELSE ""
        cols == IF _format_column_list(summary.columns) = "" THEN "<none>"
                ELSE _format_column_list(summary.columns)
        text == table_name \o ": " \o prefix \o "index on [" \o cols \o "]"
    IN IF summary.where # "" THEN text \o " where " \o summary.where ELSE text

\* section that writes nothing under the title of an empty section
SectionOmittingPlaceholder(title, items) ==
    <<title>> \o SeqMap(LAMBDA item : "  - " \o item, items) \o <<"">>

\* the lines section() appends
section(title, items) ==
    <<title>>
        \o (IF items = <<>> THEN <<"  (none)">>
            ELSE SeqMap(LAMBDA item : "  - " \o item, items))
        \o <<"">>

\* key=lambda item: (item.ref_table, item.local_columns)
ForeignKeySortKeyLess(a, b) ==
    IF a.ref_table # b.ref_table THEN StrLess(a.ref_table, b.ref_table)
    ELSE TupleLess(a.local_columns, b.local_columns)

\* key=lambda item: (item.columns, item.unique, item.where)
IndexSortKeyLess(a, b) ==
    IF a.columns # b.columns THEN TupleLess(a.columns, b.columns)
    ELSE IF a.unique # b.unique THEN b.unique
    ELSE StrLess(a.where, b.where)

\* str.rstrip() of the joined lines: the empty lines at the end go
RECURSIVE rstrip(_)
rstrip(lines) ==
    IF lines # <<>> /\ lines[Len(lines)] = ""
    THEN rstrip(SubSeq(lines, 1, Len(lines) - 1))
    ELSE lines

\* the item lists generate_diff_report hands to section(), in the order of the
\* eight calls; fk_order and index_order are the iteration orders of the sets
\* of foreign-key and index summaries in this run
\* the keys of the section "Tables only in ..." that ignore the other side
KeysIgnoringOtherSide(keys, other_keys) == keys

\* migration_keys - drawio_keys and drawio_keys - migration_keys
keys_only_in(keys, other_keys) == keys \ other_keys

section_items(migration_snapshot, drawio_snapshot, fk_order, index_order) ==
    LET migration_keys == DOMAIN migration_snapshot
        drawio_keys == DOMAIN drawio_snapshot
        only_migrations == SortedStrings(keys_only_in(migration_keys, drawio_keys))
        only_drawio == SortedStrings(keys_only_in(drawio_keys, migration_keys))
        common == SortedStrings(migration_keys \cap drawio_keys)
        ColumnLine(name, columns) ==
            IF columns = {} THEN <<>>
            ELSE <<name \o ": " \o Join(SortedStrings(columns), ", ")>>
        missing_columns ==
            Flatten(SeqMap(LAMBDA key : ColumnLine(migration_snapshot[key].name,
                migration_snapshot[key].columns \ drawio_snapshot[key].columns), common))
        extra_columns ==
            Flatten(SeqMap(LAMBDA key : ColumnLine(migration_snapshot[key].name,
                drawio_snapshot[key].columns \ migration_snapshot[key].columns), common))
        FkLines(name, fks) ==
            SeqMap(LAMBDA fk : _format_fk(name, fk),
                   sorted(ForeignKeySortKeyLess, Iterate(fks, fk_order)))
        missing_fks ==
            Flatten(SeqMap(LAMBDA key : FkLines(migration_snapshot[key].name,
                migration_snapshot[key].foreign_keys \ drawio_snapshot[key].foreign_keys), common))
        extra_fks ==
            Flatten(SeqMap(LAMBDA key : FkLines(drawio_snapshot[key].name,
                drawio_snapshot[key].foreign_keys \ migration_snapshot[key].foreign_keys), common))
        IndexLines(name, indexes) ==
            SeqMap(LAMBDA idx : _format_index(name, idx),
                   sorted(IndexSortKeyLess, Iterate(indexes, index_order)))
        missing_indexes ==
            Flatten(SeqMap(LAMBDA key : IndexLines(migration_snapshot[key].name,
                migration_snapshot[key].indexes \ drawio_snapshot[key].indexes), common))
        extra_indexes ==
            Flatten(SeqMap(LAMBDA key : IndexLines(drawio_snapshot[key].name,
                drawio_snapshot[key].indexes \ migration_snapshot[key].indexes), common))
    IN << SeqMap(LAMBDA key : migration_snapshot[key].name, only_migrations),
          SeqMap(LAMBDA key : drawio_snapshot[key].name, only_drawio),
          missing_columns, extra_columns,
          missing_fks, extra_fks,
          missing_indexes, extra_indexes >>

\* the titles of the eight section() calls, in the order of the calls
SectionTitles ==
    << "Tables only in migrations", "Tables only in draw.io",
       "Columns missing in draw.io", "Columns only in draw.io",
       "Foreign keys missing in draw.io", "Foreign keys only in draw.io",
       "Indexes missing in draw.io", "Indexes only in draw.io" >>

\* generate_diff_report that returns the joined lines as they are
ReportKeepingTrailingBlankLine(migration_snapshot, drawio_snapshot, fk_order, index_order) ==
    LET items == section_items(migration_snapshot, drawio_snapshot, fk_order, index_order)
        lines == Flatten([i \in 1..Len(SectionTitles) |-> section(SectionTitles[i], items[i])])
    IN Join(lines, "\n") \o "\n"

generate_diff_report(migration_snapshot, drawio_snapshot, fk_order, index_order) ==
    LET items == section_items(migration_snapshot, drawio_snapshot, fk_order, index_order)
        lines == Flatten([i \in 1..Len(SectionTitles) |-> section(SectionTitles[i], items[i])])
    IN Join(rstrip(lines), "\n") \o "\n"

-----------------------------------------------------------------------------
(* Runs of the diff report over bounded Snapshots *)

MaxRuns == 2

ForeignKeySummaries ==
    { ForeignKeySummary(<<"c">>, "t", <<"c">>),
      ForeignKeySummary(<<"c">>, "t", <<"d">>),
      ForeignKeySummary(<<"d">>, "u", <<>>) }

IndexSummaries ==
    { IndexSummary(<<"c">>, FALSE, ""),
      IndexSummary(<<"c">>, TRUE, ""),
      IndexSummary(<<"c", "d">>, TRUE, "c > 0") }

ForeignKeySets ==
    { {},
      {ForeignKeySummary(<<"c">>, "t", <<"c">>)},
      {ForeignKeySummary(<<"c">>, "t", <<"c">>), ForeignKeySummary(<<"c">>, "t", <<"d">>)},
      {ForeignKeySummary(<<"c">>, "t", <<"d">>), ForeignKeySummary(<<"d">>, "u", <<>>)} }

IndexSets ==
    { {},
      {IndexSummary(<<"c">>, FALSE, "")},
      {IndexSummary(<<"c">>, FALSE, ""), IndexSummary(<<"c">>, TRUE, ""),
       IndexSummary(<<"c", "d">>, TRUE, "c > 0")} }

\* the summaries a Snapshot may hold under key "t" and under key "u"
SummariesOfT ==
    {TableSummary("t", columns, fks, indexes) :
        columns \in {{"c"}, {"c", "d"}}, fks \in ForeignKeySets, indexes \in IndexSets}
    \cup {TableSummary("T", {"c"}, {}, {})}

SummariesOfU ==
    { TableSummary("u", {"c"}, {}, {}),
      TableSummary("u", {"d"}, {ForeignKeySummary(<<"d">>, "u", <<>>)}, {}) }

Snapshots ==
    {EmptySnapshot}
    \cup {[key \in {"t"} |-> t] : t \in SummariesOfT}
    \cup {[key \in {"u"} |-> u] : u \in SummariesOfU}
    \cup {[key \in {"t", "u"} |-> IF key = "t" THEN t ELSE u] :
             t \in SummariesOfT, u \in SummariesOfU}

\* every order in which a set can hand out the elements of a pool
Orders(pool) == {order \in [1..Cardinality(pool) -> pool] : Range(order) = pool}

InitDiff ==
    /\ schema = <<>>
    /\ failures = <<>>
    /\ pos = 0
    /\ last = NoStmt
    /\ prev = <<>>
    /\ before = <<>>
    /\ first = NoStmt
    /\ dropped = {}
    /\ cells = <<>>
    /\ walk = <<>>
    /\ column_map = <<>>
    /\ mig \in Snapshots
    /\ dia \in Snapshots
    /\ diagram = <<>>
    /\ reports = <<>>
    /\ sql = <<>>
    /\ splits = <<>>

\* one run of generate_diff_report on the two Snapshots
RunDiff ==
    /\ Len(reports) < MaxRuns
    /\ \E fk_order \in Orders(ForeignKeySummaries), index_order \in Orders(IndexSummaries) :
          reports' = Append(reports, generate_diff_report(mig, dia, fk_order, index_order))
    /\ UNCHANGED <<mig, dia, diagram>>
    /\ UNCHANGED replayVars
    /\ UNCHANGED splitVars
    /\ UNCHANGED cellVars

NextDiff == RunDiff

SpecDiff == InitDiff /\ [][NextDiff]_vars

-----------------------------------------------------------------------------
(* Properties of the diff report *)

AllNoneReport ==
    "Tables only in migrations\n  (none)\n\n"
    \o "Tables only in draw.io\n  (none)\n\n"
    \o "Columns missing in draw.io\n  (none)\n\n"
    \o "Columns only in draw.io\n  (none)\n\n"
    \o "Foreign keys missing in draw.io\n  (none)\n\n"
    \o "Foreign keys only in draw.io\n  (none)\n\n"
    \o "Indexes missing in draw.io\n  (none)\n\n"
    \o "Indexes only in draw.io\n  (none)\n"

\* C9: the report of a Snapshot against itself is the eight section titles,
\* each followed by the one line "  (none)" and by no item line.
C9_SelfDiffIsAllNone ==
    mig = dia => \A i \in 1..Len(reports) : reports[i] = AllNoneReport

\* a report of a Snapshot that holds tables, foreign keys and indexes against itself
C9_Witness ==
    /\ mig = dia
    /\ DOMAIN mig = {"t", "u"}
    /\ Cardinality(mig["t"].foreign_keys) = 2
    /\ Cardinality(mig["t"].indexes) = 3
    /\ reports # <<>>

\* C10: two runs on the same two Snapshots that differ only in the iteration
\* order of the sets produce the same report text.
C10_ReportIndependentOfIterationOrder ==
    \A i, j \in 1..Len(reports) : reports[i] = reports[j]

\* the text of one section as C11 words it: the header line, then the item
\* lines or the one line "  (none)"
SectionText(title, items) ==
    title \o "\n"
        \o (IF items = <<>> THEN "  (none)\n"
            ELSE Join(SeqMap(LAMBDA item : "  - " \o item \o "\n", items), ""))

\* the eight sections in the fixed order, one blank line between two
\* sections and none at the end
WellFormedReport(items) ==
    Join([i \in 1..8 |-> SectionText(SectionTitles[i], items[i])], "\n")

\* C11: every report is the eight sections in the fixed order, each its
\* header followed by its item lines or by the one line "  (none)", with one
\* blank line between consecutive sections and no blank line at the end.
C11_ReportHasEightWellFormedSections ==
    reports # <<>> =>
        \E fk_order \in Orders(ForeignKeySummaries), index_order \in Orders(IndexSummaries) :
            reports[Len(reports)]
                = WellFormedReport(section_items(mig, dia, fk_order, index_order))

\* a report with a section of two items, a section of one item and empty sections
C11_Witness ==
    /\ reports # <<>>
    /\ DOMAIN mig = {"t"} /\ DOMAIN dia = {"t", "u"}
    /\ Cardinality(mig["t"].foreign_keys \ dia["t"].foreign_keys) = 2
    /\ mig["t"].indexes = dia["t"].indexes

\* the set differences C14 speaks of, for the tables whose key both Snapshots hold
CommonKeys == DOMAIN mig \cap DOMAIN dia

MissingOf(field(_), key) == field(mig[key]) \ field(dia[key])

ExtraOf(field(_), key) == field(dia[key]) \ field(mig[key])

\* one item per (table, element) pair of a set difference
PairsOf(Difference(_)) == UNION {{<<key, e>> : e \in Difference(key)} : key \in CommonKeys}

\* one item per table with a non-empty difference of column names
ColumnItems(Difference(_)) ==
    { mig[key].name \o ": " \o Join(SortedStrings(Difference(key)), ", ") :
        key \in {k \in CommonKeys : Difference(k) # {}} }

ColumnsField(t) == t.columns

ForeignKeysField(t) == t.foreign_keys

IndexesField(t) == t.indexes

ListsExactly(items, expected) ==
    /\ Range(items) = expected
    /\ Len(items) = Cardinality(expected)

SetDifferenceItems(items) ==
    /\ ListsExactly(items[1], {mig[key].name : key \in DOMAIN mig \ DOMAIN dia})
    /\ ListsExactly(items[2], {dia[key].name : key \in DOMAIN dia \ DOMAIN mig})
    /\ ListsExactly(items[3], ColumnItems(LAMBDA key : MissingOf(ColumnsField, key)))
    /\ ListsExactly(items[4], ColumnItems(LAMBDA key : ExtraOf(ColumnsField, key)))
    /\ Range(items[5]) = {_format_fk(mig[p[1]].name, p[2]) :
                            p \in PairsOf(LAMBDA key : MissingOf(ForeignKeysField, key))}
    /\ Len(items[5]) = Cardinality(PairsOf(LAMBDA key : MissingOf(ForeignKeysField, key)))
    /\ Range(items[6]) = {_format_fk(dia[p[1]].name, p[2]) :
                            p \in PairsOf(LAMBDA key : ExtraOf(ForeignKeysField, key))}
    /\ Len(items[6]) = Cardinality(PairsOf(LAMBDA key : ExtraOf(ForeignKeysField, key)))
    /\ Range(items[7]) = {_format_index(mig[p[1]].name, p[2]) :
                            p \in PairsOf(LAMBDA key : MissingOf(IndexesField, key))}
    /\ Len(items[7]) = Cardinality(PairsOf(LAMBDA key : MissingOf(IndexesField, key)))
    /\ Range(items[8]) = {_format_index(dia[p[1]].name, p[2]) :
                            p \in PairsOf(LAMBDA key : ExtraOf(IndexesField, key))}
    /\ Len(items[8]) = Cardinality(PairsOf(LAMBDA key : ExtraOf(IndexesField, key)))

\* C14: the two table sections list the names of the tables whose key only one
\* Snapshot holds, and the column, foreign-key and index sections list, for the
\* tables whose key both Snapshots hold and for no other table, one item per
\* table with missing (extra) columns and one item per missing (extra) foreign
\* key and index: nothing more and nothing less.
C14_SectionsListSetDifferences ==
    \A i \in 1..Len(reports) :
        \E fk_order \in Orders(ForeignKeySummaries), index_order \in Orders(IndexSummaries) :
            LET items == section_items(mig, dia, fk_order, index_order)
            IN /\ reports[i] = WellFormedReport(items)
               /\ SetDifferenceItems(items)

\* a report of two Snapshots that share table t, differing in its columns,
\* foreign keys and indexes, while table u, holding a foreign key, is on one side only
C14_Witness ==
    /\ reports # <<>>
    /\ DOMAIN mig = {"t", "u"}
    /\ DOMAIN dia = {"t"}
    /\ mig["u"].foreign_keys # {}
    /\ mig["t"].columns \ dia["t"].columns # {}
    /\ Cardinality(mig["t"].foreign_keys \ dia["t"].foreign_keys) = 2
    /\ dia["t"].indexes \ mig["t"].indexes # {}

-----------------------------------------------------------------------------
(* Replays of CREATE TABLE and CREATE INDEX statements on two tables *)

UsersBody ==
    << ColumnDef(Id("id"), "int", <<Inline(PrimaryKeyColumnConstraint)>>),
       ColumnDef(Id("email"), "text", <<Inline(NotNullColumnConstraint)>>) >>

OrdersBody ==
    << ColumnDef(Id("id"), "int", <<Inline(PrimaryKeyColumnConstraint)>>),
       ColumnDef(Id("user_id"), "int", <<Inline(Reference(Tbl("users"), <<Id("id")>>))>>) >>

\* the elements of a body that mixes column definitions and table-level clauses
OrdersIdColumn == ColumnDef(Id("id"), "int", <<>>)
OrdersUserIdColumn ==
    ColumnDef(Id("user_id"), "int", <<Inline(Reference(Tbl("users"), <<Id("id")>>))>>)
OrdersPrimaryKeyClause == Constraint(Id("orders_pk"), <<PrimaryKey(<<Id("id")>>)>>)
OrdersForeignKeyClause == ForeignKeyExpr(<<Id("id")>>, Reference(Tbl("users"), <<Id("id")>>))

\* the same four elements with the table-level clauses behind, before and
\* between the column definitions; and a body whose PRIMARY KEY clause stands
\* before a column that declares itself PRIMARY KEY
MixedBodies ==
    { <<OrdersIdColumn, OrdersUserIdColumn, OrdersPrimaryKeyClause, OrdersForeignKeyClause>>,
      <<OrdersPrimaryKeyClause, OrdersForeignKeyClause, OrdersIdColumn, OrdersUserIdColumn>>,
      <<OrdersIdColumn, OrdersForeignKeyClause, OrdersUserIdColumn, OrdersPrimaryKeyClause>>,
      <<PrimaryKey(<<Id("id")>>), OrdersIdColumn,
        ColumnDef(Id("user_id"), "int", <<Inline(PrimaryKeyColumnConstraint)>>)>> }

ExampleStmts ==
    { CreateTable(Tbl("users"), UsersBody, <<>>),
      IfNotExists(CreateTable(Tbl("users"), UsersBody, <<>>)),
      IfNotExists(CreateTable(Tbl("users"), <<ColumnDef(Id("id"), "int", <<>>)>>, <<>>)),
      CreateTable(Tbl("orders"), OrdersBody, <<>>),
      CreateTable(Tbl("orders"), OrdersBody, <<<<"user_id", "users", <<"id">>>>>>),
      CreateTable(Tbl("orders"), <<OrdersIdColumn>>, <<<<"id", "users", <<>>>>>>),
      CreateIndex(Id("orders_user_idx"), Tbl("orders"), <<Id("user_id")>>, FALSE, ""),
      CreateIndex(Id("orders_id_key"), Tbl("orders"), <<Id("id")>>, TRUE, ""),
      CreateIndex(Id("users_email_key"), Tbl("users"), <<Id("email")>>, TRUE, "email IS NOT NULL"),
      CreateTable(Tbl("users"),
                  <<ColumnDef(Id("id"), "int", <<Inline(PrimaryKeyColumnConstraint)>>),
                    ColumnDef(Id("email"), "text",
                              <<ColumnConstraint(Id("users_email_uq"),
                                                 UniqueColumnConstraint(<<>>))>>)>>, <<>>),
      CreateTable(Tbl("orders"),
                  <<OrdersIdColumn, OrdersUserIdColumn,
                    UniqueColumnConstraint(<<Id("id"), Id("user_id")>>),
                    Constraint(Id("orders_uq"),
                               <<UniqueColumnConstraint(<<Id("user_id")>>)>>)>>, <<>>) }
    \cup {CreateTable(Tbl("orders"), body, <<>>) : body \in MixedBodies}

ReplayExample == \E stmt \in ExampleStmts, final \in BOOLEAN : Consume(stmt, final)

NextCreate == ReplayExample

SpecCreate == Init /\ [][NextCreate]_vars

\* the two statements of C12 have been replayed, in this order, on an empty Schema
UsersThenOrdersReplayed ==
    /\ pos = 2
    /\ prev = Dispatch(CreateTable(Tbl("users"), UsersBody, <<>>), <<>>)
    /\ last = CreateTable(Tbl("orders"), OrdersBody, <<>>)

\* C12: CREATE TABLE users (id PRIMARY KEY, email NOT NULL) and then CREATE
\* TABLE orders (id PRIMARY KEY, user_id REFERENCES users(id)) on an empty
\* Schema give exactly the tables users and orders; orders holds the one
\* foreign key (user_id) -> users(id) and users holds none.
C12_UsersOrdersExample ==
    UsersThenOrdersReplayed =>
        /\ Len(schema) = 2
        /\ Keys(schema) = {"users", "orders"}
        /\ Get(schema, "users").foreign_keys = <<>>
        /\ Len(Get(schema, "orders").foreign_keys) = 1
        /\ Get(schema, "orders").foreign_keys[1].columns = <<"user_id">>
        /\ Get(schema, "orders").foreign_keys[1].ref_table = "users"
        /\ Get(schema, "orders").foreign_keys[1].ref_columns = <<"id">>

\* the example replayed to its end
C12_Witness ==
    /\ UsersThenOrdersReplayed
    /\ schema # prev
    /\ Get(schema, "users").primary_key = {"id"}

\* the same table declared again: its columns, foreign keys and indexes in the
\* opposite order, and each foreign key and index a second time (the second
\* index under another name, since a table holds equal indexes once)
Reverse(seq) == [i \in 1..Len(seq) |-> seq[Len(seq) + 1 - i]]

Redeclared(table, reversed, repeated) ==
    LET Twice(seq) == IF repeated THEN seq \o seq ELSE seq
        Again(seq) == [i \in 1..Len(seq) |-> [seq[i] EXCEPT !.name = @ \o "_2"]]
        Turned(seq) == IF reversed THEN Reverse(seq) ELSE seq
    IN [table EXCEPT !.columns = Turned(@),
                     !.foreign_keys = Turned(Twice(@)),
                     !.indexes = Turned(IF repeated THEN @ \o Again(@) ELSE @)]

\* the Schemas that hold the tables of s, each declared again in one of the ways
Redeclarations(s) ==
    { [i \in 1..Len(s) |-> [key |-> s[i].key,
                            table |-> Redeclared(s[i].table, how[i][1], how[i][2])]] :
        how \in [1..Len(s) -> BOOLEAN \X BOOLEAN] }

\* C15: a Schema and a Schema whose tables hold the same columns, foreign keys
\* and indexes in another order and declared more than once have equal
\* Snapshots, and their diff report is all-(none).
C15_SnapshotIgnoresOrderAndRepetition ==
    \A other \in Redeclarations(schema) :
        /\ snapshot_from_schema(other) = snapshot_from_schema(schema)
        /\ generate_diff_report(snapshot_from_schema(schema), snapshot_from_schema(other),
                                <<>>, <<>>) = AllNoneReport

\* a table with two columns, two different foreign keys and two indexes
C15_Witness ==
    /\ "orders" \in Keys(schema)
    /\ Len(Get(schema, "orders").columns) = 2
    /\ Cardinality(_table_foreign_keys(Get(schema, "orders"))) = 2
    /\ Cardinality(_table_indexes(Get(schema, "orders"))) = 2
    /\ \E other \in Redeclarations(schema) :
          /\ Get(other, "orders").columns # Get(schema, "orders").columns
          /\ Len(Get(other, "orders").foreign_keys) = 4
          /\ Get(other, "orders").indexes[1] # Get(schema, "orders").indexes[1]

\* C19: after CREATE TABLE T, with or without IF NOT EXISTS and whether or
\* not T was a key of the Schema, T holds exactly what the statement declares
\* on an empty Schema: nothing of its former columns, primary key, primary-key
\* name, foreign keys, indexes and registry stays; every other table is as
\* it was, the foreign keys that reference T included.
C19_CreateTableResetsOnlyItsTable ==
    IsCreateTable(last) =>
        LET T == _table_name(last.table)
        IN /\ Keys(schema) = Keys(prev) \cup {T}
           /\ Get(schema, T) = Get(Dispatch(last, <<>>), T)
           /\ \A k \in Keys(prev) \ {T} : Get(schema, k) = Get(prev, k)

\* CREATE TABLE IF NOT EXISTS users on a Schema where users holds an index
\* and orders holds a foreign key that references users
C19_Witness ==
    /\ IsCreateTable(last)
    /\ last.exists
    /\ _table_name(last.table) = "users"
    /\ {"users", "orders"} \subseteq Keys(prev)
    /\ Get(prev, "users").indexes # <<>>
    /\ Get(schema, "users").indexes = <<>>
    /\ Get(schema, "users").primary_key # {}
    /\ Get(schema, "users") # Get(prev, "users")
    /\ \E e \in ForeignKeysOf(schema) : e.key = "orders" /\ e.fk.ref_table = "users"

\* the body with all column definitions moved before the table-level clauses,
\* the order within each group kept
ColumnsFirst(expressions) ==
    SeqFilter(LAMBDA element : element.node = "ColumnDef", expressions)
    \o SeqFilter(LAMBDA element : element.node # "ColumnDef", expressions)

\* C20: CREATE TABLE ingests all column definitions before any table-level
\* constraint clause, so the Schema after it is the one the same statement
\* gives with its column definitions written first, whatever position the
\* table-level PRIMARY KEY and FOREIGN KEY clauses take in the body.
C20_CreateTableIngestsColumnsFirst ==
    IsCreateTable(last) =>
        schema = Dispatch([last EXCEPT !.expressions = ColumnsFirst(@)], prev)

-----------------------------------------------------------------------------
(* Replays that declare keys inline and with table-level clauses *)

InlineKeyColumns ==
    { ColumnDef(Id("c"), "int", <<Inline(PrimaryKeyColumnConstraint)>>),
      ColumnDef(Id("c"), "int", <<ColumnConstraint(Id("p"), PrimaryKeyColumnConstraint)>>),
      ColumnDef(Id("c"), "int", <<Inline(Reference(Tbl("u"), <<Id("c")>>))>>),
      ColumnDef(Id("c"), "int", <<ColumnConstraint(Id("k"), Reference(Tbl("u"), <<Id("c")>>)),
                                  Inline(NotNullColumnConstraint)>>) }

KeyStmts ==
    { CreateTable(Tbl("t"), <<ColumnDef(Id("d"), "int", <<Inline(PrimaryKeyColumnConstraint)>>)>>, <<>>),
      CreateTable(Tbl("t"), <<ColumnDef(Id("d"), "int", <<>>)>>, <<>>),
      AlterStmt("TABLE", Tbl("t"), <<DropAction("CONSTRAINT", Id("t_pkey"))>>),
      AlterStmt("TABLE", Tbl("t"), <<DropAction("COLUMN", Id("c"))>>) }
    \cup {CreateTable(Tbl("t"), <<ColumnDef(Id("d"), "int", <<>>), column>>, <<>>) :
             column \in InlineKeyColumns}
    \cup {AlterStmt("TABLE", Tbl("t"), <<column>>) : column \in InlineKeyColumns}

ReplayKeys == \E stmt \in KeyStmts, final \in BOOLEAN : Consume(stmt, final)

NextKeys == ReplayKeys

SpecKeys == Init /\ [][NextKeys]_vars

IsKey(constraint) == constraint.kind.node \in {"PrimaryKeyColumnConstraint", "Reference"}

\* the table-level clause that declares the key of an inline constraint of column
ClauseOf(column, constraint) ==
    LET key == IF constraint.kind.node = "PrimaryKeyColumnConstraint"
               THEN PrimaryKey(<<column.this>>)
               ELSE ForeignKeyExpr(<<column.this>>, constraint.kind)
    IN IF constraint.this = NoIdentifier THEN key ELSE Constraint(constraint.this, <<key>>)

\* the column definition without its inline keys
Keyless(column) ==
    [column EXCEPT !.constraints = SeqFilter(LAMBDA c : ~IsKey(c), @)]

Clauses(column) ==
    SeqMap(LAMBDA c : ClauseOf(column, c), SeqFilter(IsKey, column.constraints))

\* the statement with every inline key written as a table-level clause right
\* behind its column: in the body of CREATE TABLE, as ADD actions of ALTER TABLE
TableLevel(stmt) ==
    IF stmt.node = "Create"
    THEN [stmt EXCEPT !.expressions =
             Flatten(SeqMap(LAMBDA e : IF e.node = "ColumnDef"
                                       THEN <<Keyless(e)>> \o Clauses(e) ELSE <<e>>, @))]
    ELSE [stmt EXCEPT !.actions =
             Flatten(SeqMap(LAMBDA a : IF a.node = "ColumnDef"
                                       THEN <<Keyless(a)>>
                                            \o SeqMap(LAMBDA c : AddConstraint(<<c>>), Clauses(a))
                                       ELSE <<a>>, @))]

DeclaresInlineKey(stmt) ==
    \/ IsCreateTable(stmt) /\ TableLevel(stmt) # stmt
    \/ stmt.node = "Alter" /\ stmt.kind = "TABLE" /\ TableLevel(stmt) # stmt

\* the facts of a table C21 speaks of
KeyFacts(table) ==
    [primary_key |-> table.primary_key, primary_key_name |-> table.primary_key_name,
     foreign_keys |-> table.foreign_keys, constraint_types |-> table.constraint_types]

StatedTable(stmt) == _table_name(IF stmt.node = "Create" THEN stmt.table ELSE stmt.this)

\* C21: a statement that declares a primary key or a foreign key inline on a
\* column leaves its table with the primary-key set, primary-key name,
\* ForeignKey list and registry that the same statement leaves when the key is
\* declared with a table-level clause, whatever the table held before.
C21_InlineKeyEqualsTableLevelKey ==
    DeclaresInlineKey(last) =>
        KeyFacts(Get(schema, StatedTable(last)))
            = KeyFacts(Get(Dispatch(TableLevel(last), prev), StatedTable(last)))

\* the same, for statements replayed on a table that holds no primary key
C21_InlineKeyEqualsTableLevelKeyWithoutPrimaryKey ==
    /\ DeclaresInlineKey(last)
    /\ last.node = "Alter" => Get(SetDefault(prev, StatedTable(last)), StatedTable(last)).primary_key = {}
    => KeyFacts(Get(schema, StatedTable(last)))
           = KeyFacts(Get(Dispatch(TableLevel(last), prev), StatedTable(last)))

-----------------------------------------------------------------------------
(* str operations of the note parser.  A str that the code scans is the     *)
(* sequence of its characters, each a one-character string.                 *)

Whitespace == {" ", "\t", "\n"}

\* the str whose characters are chars
Text(chars) == Join(chars, "")

RECURSIVE str_lstrip(_)
str_lstrip(chars) ==
    IF chars # <<>> /\ Head(chars) \in Whitespace THEN str_lstrip(Tail(chars)) ELSE chars

RECURSIVE str_rstrip(_)
str_rstrip(chars) ==
    IF chars # <<>> /\ chars[Len(chars)] \in Whitespace
    THEN str_rstrip(SubSeq(chars, 1, Len(chars) - 1))
    ELSE chars

str_strip(chars) == str_rstrip(str_lstrip(chars))

str_lower(chars) == SeqMap(Lower, chars)

str_upper(chars) == SeqMap(Upper, chars)

str_startswith(chars, prefix) ==
    Len(prefix) <= Len(chars) /\ SubSeq(chars, 1, Len(prefix)) = prefix

\* chars[n:]
str_from(chars, n) == SubSeq(chars, n + 1, Len(chars))

\* str.find: the first index (from 1) at which sub starts, 0 when there is none
str_find(chars, sub) ==
    LET hits == {i \in 1..(Len(chars) - Len(sub) + 1) : SubSeq(chars, i, i + Len(sub) - 1) = sub}
    IN IF hits = {} THEN 0 ELSE CHOOSE i \in hits : \A j \in hits : i <= j

str_contains(chars, sub) == str_find(chars, sub) # 0

\* chars.split(sep, 1) of a str that contains sep
str_split_once(chars, sep) ==
    LET i == str_find(chars, sep)
    IN <<SubSeq(chars, 1, i - 1), SubSeq(chars, i + Len(sep), Len(chars))>>

\* chars.split(sep)
RECURSIVE str_split(_, _)
str_split(chars, sep) ==
    IF ~str_contains(chars, sep) THEN <<chars>>
    ELSE <<str_split_once(chars, sep)[1]>> \o str_split(str_split_once(chars, sep)[2], sep)

\* schema_diff._normalize_identifier on a scanned str
normalize_chars(chars) == Text(str_lower(str_strip(chars)))

\* tuple(_normalize_identifier(chunk) for chunk in part.split(",") if chunk.strip())
normalized_chunks(part) ==
    SeqMap(normalize_chars,
           SeqFilter(LAMBDA chunk : str_strip(chunk) # <<>>, str_split(part, <<",">>)))

-----------------------------------------------------------------------------
(* schema_diff.py: the Snapshot of a diagram *)

\* what _parse_fk_note and _parse_index_note return for a line they reject
NoSummary == [none |-> TRUE]

_parse_fk_note(line) ==
    LET stripped == str_strip(line)
        payload == str_strip(str_from(stripped, 3))
        local_part == str_split_once(payload, <<"-", ">">>)[1]
        target_part == str_strip(str_split_once(payload, <<"-", ">">>)[2])
        table_part == str_split_once(target_part, <<".">>)[1]
        column_part == str_split_once(target_part, <<".">>)[2]
    IN IF ~str_startswith(str_upper(stripped), <<"F", "K", " ">>) THEN NoSummary
       ELSE IF ~str_contains(payload, <<"-", ">">>) THEN NoSummary
       ELSE IF str_contains(target_part, <<".">>)
       THEN ForeignKeySummary(normalized_chunks(local_part), normalize_chars(table_part),
                              normalized_chunks(column_part))
       ELSE ForeignKeySummary(normalized_chunks(local_part), normalize_chars(target_part), <<>>)

_parse_index_note(line) ==
    LET first_stripped == str_strip(line)
        unique == str_startswith(str_lower(first_stripped), <<"u", "n", "i", "q", "u", "e", " ">>)
        stripped == IF unique THEN str_from(first_stripped, 7) ELSE first_stripped
        lowered == str_lower(stripped)
        index_on == <<"i", "n", "d", "e", "x", " ", "o", "n", " ", "[">>
        remainder == str_from(stripped, 10)
        columns_part == str_split_once(remainder, <<"]">>)[1]
        tail == str_strip(str_split_once(remainder, <<"]">>)[2])
        where_clause ==
            IF str_startswith(str_lower(tail), <<"w", "h", "e", "r", "e", " ">>)
            THEN Text(str_lower(str_strip(str_from(tail, 6))))
            ELSE ""
    IN IF ~str_contains(str_lower(first_stripped), index_on) THEN NoSummary
       ELSE IF ~str_startswith(lowered, index_on) THEN NoSummary
       ELSE IF ~str_contains(remainder, <<"]">>) THEN NoSummary
       ELSE IndexSummary(normalized_chunks(columns_part), unique, where_clause)

\* drawio_parser.DiagramTable; the note lines are scanned strs
DiagramTable(name, columns, note_lines) ==
    [name |-> name, columns |-> columns, note_lines |-> note_lines]

_table_columns_from_diagram(table) ==
    {normalize_identifier(column) : column \in {c \in Range(table.columns) : c # ""}}

_table_foreign_keys_from_diagram(table) ==
    {_parse_fk_note(line) : line \in Range(table.note_lines)} \ {NoSummary}

_table_indexes_from_diagram(table) ==
    {_parse_index_note(line) : line \in Range(table.note_lines)} \ {NoSummary}

\* snapshot_from_drawio on the tables parse_drawio_tables returns, a sequence
\* in the order of the dict; the entry written last under a normalized key stays
snapshot_from_drawio(diagram_tables) ==
    [key \in {normalize_identifier(diagram_tables[i].name) : i \in 1..Len(diagram_tables)} |->
        LET hits == {i \in 1..Len(diagram_tables) :
                        normalize_identifier(diagram_tables[i].name) = key}
            i == CHOOSE h \in hits : \A g \in hits : g <= h
        IN TableSummary(diagram_tables[i].name,
                        _table_columns_from_diagram(diagram_tables[i]),
                        _table_foreign_keys_from_diagram(diagram_tables[i]),
                        _table_indexes_from_diagram(diagram_tables[i]))]

-----------------------------------------------------------------------------
(* Runs of run_diff_cli on a migration Schema and a diagram *)

FkKeywords == {<<"F", "K">>, <<"f", "k">>}
ColumnTexts == {<<"c">>, <<"C">>}
RefColumnTexts == {<<"d">>, <<"D">>}
TableTexts == {<<"u">>, <<"U">>, <<"s", ".", "u">>}

\* the note line "FK <col> -> <table>.<refcol>"
FkNote(keyword, col, table, refcol) ==
    keyword \o <<" ">> \o col \o <<" ", "-", ">", " ">> \o table \o <<".">> \o refcol

FkNotes ==
    {FkNote(keyword, col, table, refcol) :
        keyword \in FkKeywords, col \in ColumnTexts, table \in TableTexts,
        refcol \in RefColumnTexts}

\* "Unique Index on [c] Where C > 0", "see u", "FK c -> u"
OtherNotes ==
    << <<"U", "n", "i", "q", "u", "e", " ", "I", "n", "d", "e", "x", " ", "o", "n", " ", "[",
         "c", "]", " ", "W", "h", "e", "r", "e", " ", "C", " ", ">", " ", "0">>,
       <<"s", "e", "e", " ", "u">>,
       <<"F", "K", " ", "c", " ", "-", ">", " ", "u">> >>

Diagrams ==
    {<<DiagramTable(name, <<"c">>, <<note>>)>> : name \in {"t", "T"}, note \in FkNotes}
    \cup {<<DiagramTable("t", <<"c", "">>,
                         OtherNotes \o <<<<" ">> \o FkNote(<<"f", "k">>, <<"C">>, <<"U">>, <<"D">>)>>)>>,
          <<DiagramTable("u", <<"d">>, <<>>), DiagramTable("t", <<"c">>, OtherNotes)>>}

\* Schemas a replay leaves: one table holding one foreign key, with names as
\* quoted and unquoted identifiers give them
MigrationSchemas ==
    {<<[key |-> key,
        table |-> [TableWithIndexes(key) EXCEPT
                     !.columns = <<Column(cols[1], "int", TRUE, FALSE)>>,
                     !.foreign_keys = <<ForeignKey(<<cols[1]>>, ref_table, <<cols[2]>>, "")>>]]>> :
        key \in {"t", "T"}, cols \in {<<"c", "d">>, <<"C", "D">>},
        ref_table \in {Text(table) : table \in TableTexts}}

\* the summaries the sets of a run hand out
ForeignKeySummariesOf(m, d) ==
    UNION ({m[k].foreign_keys : k \in DOMAIN m} \cup {d[k].foreign_keys : k \in DOMAIN d})

IndexSummariesOf(m, d) ==
    UNION ({m[k].indexes : k \in DOMAIN m} \cup {d[k].indexes : k \in DOMAIN d})

InitNotes ==
    /\ schema \in MigrationSchemas
    /\ failures = <<>>
    /\ pos = 0
    /\ last = NoStmt
    /\ prev = <<>>
    /\ before = <<>>
    /\ first = NoStmt
    /\ dropped = {}
    /\ cells = <<>>
    /\ walk = <<>>
    /\ column_map = <<>>
    /\ mig = EmptySnapshot
    /\ dia = EmptySnapshot
    /\ diagram \in Diagrams
    /\ reports = <<>>
    /\ sql = <<>>
    /\ splits = <<>>

\* run_diff_cli, after load_schema_from_migrations
RunDiffCli ==
    /\ Len(reports) < MaxRuns
    /\ LET migration_snapshot == snapshot_from_schema(schema)
           drawio_snapshot == snapshot_from_drawio(diagram)
       IN /\ mig' = migration_snapshot
          /\ dia' = drawio_snapshot
          /\ \E fk_order \in Orders(ForeignKeySummariesOf(migration_snapshot, drawio_snapshot)),
                index_order \in Orders(IndexSummariesOf(migration_snapshot, drawio_snapshot)) :
                reports' = Append(reports,
                    generate_diff_report(migration_snapshot, drawio_snapshot,
                                         fk_order, index_order))
    /\ UNCHANGED diagram
    /\ UNCHANGED replayVars
    /\ UNCHANGED splitVars
    /\ UNCHANGED cellVars

NextNotes == RunDiffCli

SpecNotes == InitNotes /\ [][NextNotes]_vars

\* the diagram table d carries the note "FK col -> table.refcol" and the
\* migration table stored under key holds the foreign key (col) -> table(refcol),
\* the names agreeing up to letter case
NoteMatchesForeignKey(d, note, key) ==
    \E keyword \in FkKeywords, col \in ColumnTexts, table \in TableTexts,
       refcol \in RefColumnTexts :
        /\ note = FkNote(keyword, col, table, refcol)
        /\ note \in Range(d.note_lines)
        /\ normalize_identifier(d.name) = normalize_identifier(key)
        /\ \E fk \in Range(Get(schema, key).foreign_keys) :
              /\ Len(fk.columns) = 1 /\ Lower(fk.columns[1]) = Text(str_lower(col))
              /\ Lower(fk.ref_table) = Text(str_lower(table))
              /\ Len(fk.ref_columns) = 1 /\ Lower(fk.ref_columns[1]) = Text(str_lower(refcol))

\* C13: when a note line "FK col -> table.refcol" of a diagram table and a
\* foreign key (col) -> table(refcol) of the migration table of the same
\* normalized name agree up to letter case, the summary parsed from the note
\* is a summary of the migration table, and the report lists it in neither
\* foreign-key section.
C13_NoteForeignKeyMatchesMigration ==
    \A i \in 1..Len(diagram), key \in Keys(schema), note \in FkNotes :
        reports # <<>> /\ NoteMatchesForeignKey(diagram[i], note, key) =>
            /\ _parse_fk_note(note) \in _table_foreign_keys(Get(schema, key))
            /\ \A fk_order \in Orders(ForeignKeySummariesOf(mig, dia)),
                     index_order \in Orders(IndexSummariesOf(mig, dia)) :
                   LET items == section_items(mig, dia, fk_order, index_order)
                       k == normalize_identifier(key)
                   IN /\ _format_fk(mig[k].name, _parse_fk_note(note)) \notin Range(items[5])
                      /\ _format_fk(dia[k].name, _parse_fk_note(note)) \notin Range(items[6])

\* C13 for referenced tables whose name holds no "."
C13_UnqualifiedNoteForeignKeyMatchesMigration ==
    \A i \in 1..Len(diagram), key \in Keys(schema), note \in FkNotes :
        /\ reports # <<>>
        /\ NoteMatchesForeignKey(diagram[i], note, key)
        /\ \A fk \in Range(Get(schema, key).foreign_keys) : fk.ref_table \in {"u", "U"}
        => /\ _parse_fk_note(note) \in _table_foreign_keys(Get(schema, key))
           /\ mig[normalize_identifier(key)].foreign_keys
                 = dia[normalize_identifier(key)].foreign_keys

-----------------------------------------------------------------------------
(* sql_parser.py: _split_sql_statements *)

\* sql.find(sub, start): the first index (from 1) not before start at which
\* sub starts, 0 when there is none
find_from(chars, sub, start) ==
    LET hits == {i \in start..(Len(chars) - Len(sub) + 1) :
                    SubSeq(chars, i, i + Len(sub) - 1) = sub}
    IN IF hits = {} THEN 0 ELSE CHOOSE i \in hits : \A j \in hits : i <= j

\* the code after the while loop: the stripped tail, if any, is the last statement
SplitTail(buf, statements) ==
    IF str_strip(buf) # <<>> THEN Append(statements, str_strip(buf)) ELSE statements

\* one turn of the while loop and the turns after it; i counts from 1
RECURSIVE SplitLoop(_, _, _, _, _, _)
SplitLoop(text, i, buf, in_single, in_double, statements) ==
    IF i > Len(text) THEN SplitTail(buf, statements)
    ELSE
    LET ch == text[i]
        next_two == SubSeq(text, i, IF i + 1 <= Len(text) THEN i + 1 ELSE Len(text))
    IN IF ch = "'" /\ ~in_double
       THEN IF in_single /\ i + 1 <= Len(text) /\ text[i + 1] = "'"
            THEN SplitLoop(text, i + 2, buf \o <<"'", "'">>, in_single, in_double, statements)
            ELSE SplitLoop(text, i + 1, Append(buf, ch), ~in_single, in_double, statements)
       ELSE IF ch = "\"" /\ ~in_single
       THEN IF in_double /\ i + 1 <= Len(text) /\ text[i + 1] = "\""
            THEN SplitLoop(text, i + 2, buf \o <<"\"", "\"">>, in_single, in_double, statements)
            ELSE SplitLoop(text, i + 1, Append(buf, ch), in_single, ~in_double, statements)
       ELSE IF ~in_single /\ ~in_double /\ next_two = <<"-", "-">>
       THEN LET newline_index == find_from(text, <<"\n">>, i)
            IN IF newline_index = 0
               THEN SplitTail(buf \o SubSeq(text, i, Len(text)), statements)
               ELSE SplitLoop(text, newline_index, buf \o SubSeq(text, i, newline_index - 1),
                              in_single, in_double, statements)
       ELSE IF ~in_single /\ ~in_double /\ next_two = <<"/", "*">>
       THEN LET end_index == find_from(text, <<"*", "/">>, i + 2)
            IN IF end_index = 0
               THEN SplitTail(buf \o SubSeq(text, i, Len(text)), statements)
               ELSE SplitLoop(text, end_index + 2, buf \o SubSeq(text, i, end_index + 1),
                              in_single, in_double, statements)
       ELSE IF ch = ";" /\ ~in_single /\ ~in_double
       THEN SplitLoop(text, i + 1, <<>>, in_single, in_double,
                      IF str_strip(buf) # <<>> THEN Append(statements, str_strip(buf))
                      ELSE statements)
       ELSE SplitLoop(text, i + 1, Append(buf, ch), in_single, in_double, statements)

\* a split at every ";" whatever surrounds it
RECURSIVE SplitAtEverySemicolon(_)
SplitAtEverySemicolon(text) ==
    IF ~str_contains(text, <<";">>) THEN SplitTail(text, <<>>)
    ELSE SplitTail(str_split_once(text, <<";">>)[1], <<>>)
         \o SplitAtEverySemicolon(str_split_once(text, <<";">>)[2])

_split_sql_statements(text) == SplitLoop(text, 1, <<>>, FALSE, FALSE, <<>>)

-----------------------------------------------------------------------------
(* Runs of _split_sql_statements over bounded texts *)

MaxChars == 5

SqlChars == {";", "'", "\"", "-", "/", "*", "\n", "a"}

SqlTexts == UNION {[1..n -> SqlChars] : n \in 0..MaxChars}

InitSplit ==
    /\ schema = <<>>
    /\ failures = <<>>
    /\ pos = 0
    /\ last = NoStmt
    /\ prev = <<>>
    /\ before = <<>>
    /\ first = NoStmt
    /\ dropped = {}
    /\ cells = <<>>
    /\ walk = <<>>
    /\ column_map = <<>>
    /\ mig = EmptySnapshot
    /\ dia = EmptySnapshot
    /\ diagram = <<>>
    /\ reports = <<>>
    /\ sql \in SqlTexts
    /\ splits = <<>>

\* the call of _split_sql_statements in parse_schema_from_sql
SplitStatements ==
    /\ splits = <<>>
    /\ splits' = <<_split_sql_statements(sql)>>
    /\ UNCHANGED sql
    /\ UNCHANGED replayVars
    /\ UNCHANGED diffVars
    /\ UNCHANGED cellVars

NextSplit == SplitStatements

SpecSplit == InitSplit /\ [][NextSplit]_vars

-----------------------------------------------------------------------------
(* Properties of _split_sql_statements *)

\* The lexical reading of a text that C17 speaks of.  Outside(text, i, mode)
\* is the set of the positions from i on that lie outside every string and
\* comment, mode telling what position i is inside of: a string runs from a
\* quote to the next quote of its kind, a line comment from "--" to the end
\* of the line, a block comment from "/*" to the next "*/"; openers count
\* only outside, so a quote in a comment opens no string and a comment
\* opener in a string opens no comment.
RECURSIVE Outside(_, _, _)
Outside(text, i, mode) ==
    IF i > Len(text) THEN {}
    ELSE LET at(pair) == i + 1 <= Len(text) /\ <<text[i], text[i + 1]>> = pair
         IN CASE mode = "code" ->
                   IF text[i] = "'" THEN Outside(text, i + 1, "single")
                   ELSE IF text[i] = "\"" THEN Outside(text, i + 1, "double")
                   ELSE IF at(<<"-", "-">>) THEN Outside(text, i + 2, "line")
                   ELSE IF at(<<"/", "*">>) THEN Outside(text, i + 2, "block")
                   ELSE {i} \cup Outside(text, i + 1, "code")
              [] mode = "single" ->
                   Outside(text, i + 1, IF text[i] = "'" THEN "code" ELSE "single")
              [] mode = "double" ->
                   Outside(text, i + 1, IF text[i] = "\"" THEN "code" ELSE "double")
              [] mode = "line" ->
                   IF text[i] = "\n" THEN {i} \cup Outside(text, i + 1, "code")
                   ELSE Outside(text, i + 1, "line")
              [] mode = "block" ->
                   IF at(<<"*", "/">>) THEN Outside(text, i + 2, "code")
                   ELSE Outside(text, i + 1, "block")

\* the positions of the ";" that lie outside every string and comment
Terminators(text) == {i \in Outside(text, 1, "code") : text[i] = ";"}

\* the pieces of the text between one terminator (or the start) and the next
\* (or the end), in order, stripped, the empty ones left out
RECURSIVE PiecesFrom(_, _)
PiecesFrom(text, start) ==
    LET later == {i \in Terminators(text) : i >= start}
    IN IF later = {} THEN SplitTail(SubSeq(text, start, Len(text)), <<>>)
       ELSE LET stop == CHOOSE i \in later : \A j \in later : i <= j
            IN SplitTail(SubSeq(text, start, stop - 1), <<>>) \o PiecesFrom(text, stop + 1)

\* C17: _split_sql_statements ends a statement at a ";" exactly when that ";"
\* lies outside every single-quoted string, double-quoted string, line comment
\* and block comment, so the statements it returns are the pieces of the text
\* between those ";", every other character kept in its piece; and none of
\* the statements is empty.
C17_SplitsAtTerminatorsOnly ==
    \A n \in 1..Len(splits) :
        /\ splits[n] = PiecesFrom(sql, 1)
        /\ \A k \in 1..Len(splits[n]) : splits[n][k] # <<>> /\ str_strip(splits[n][k]) # <<>>

\* a text with a ";" inside a string or comment and a ";" outside, split in two
C17_Witness ==
    /\ splits # <<>>
    /\ Len(splits[1]) = 2
    /\ \E i \in 1..Len(sql) : sql[i] = ";" /\ i \notin Terminators(sql)
    /\ Terminators(sql) # {}

-----------------------------------------------------------------------------
(* drawio_parser.py: the cell graph of a draw.io file.  The cells dict is the *)
(* sequence of its cells in document order; a missing attribute is "".       *)

LABEL_TOKENS == {"pk", "fk"}

MAX_SEARCH_DEPTH == 6

\* The value attribute of a cell is the sequence of its characters, a tag
\* ("<br>", "<div>", "</div>", "<b>") or a character reference ("&gt;")
\* counting as one character.
Tags == {"<br>", "<div>", "</div>", "<b>"}

\* html.unescape, character by character
Unescape(char) == IF char = "&gt;" THEN ">" ELSE char

RECURSIVE CollapseSpaces(_)
\* SPACE_RE.sub(" ", text), on text whose whitespace is already " "
CollapseSpaces(chars) ==
    IF Len(chars) < 2 THEN chars
    ELSE IF chars[1] = " " /\ chars[2] = " " THEN CollapseSpaces(Tail(chars))
    ELSE <<Head(chars)>> \o CollapseSpaces(Tail(chars))

_clean_value(raw_value) ==
    LET unescaped == [i \in 1..Len(raw_value) |-> Unescape(raw_value[i])]
        spaced == [i \in 1..Len(unescaped) |->
                      IF unescaped[i] \in Tags \cup Whitespace THEN " " ELSE unescaped[i]]
    IN Text(str_strip(CollapseSpaces(spaced)))

\* Cell; value is the display value _clean_value makes of the value attribute
Cell(id, raw_value, style, vertex, edge, parent, source, target) ==
    [id |-> id, value |-> _clean_value(raw_value), raw_value |-> raw_value, style |-> style,
     vertex |-> vertex, edge |-> edge, parent |-> parent, source |-> source, target |-> target]

RECURSIVE SplitLines(_, _)
\* text.splitlines(), the line in progress being current
SplitLines(chars, current) ==
    IF chars = <<>> THEN (IF current = <<>> THEN <<>> ELSE <<current>>)
    ELSE IF Head(chars) = "\n" THEN <<current>> \o SplitLines(Tail(chars), <<>>)
    ELSE SplitLines(Tail(chars), Append(current, Head(chars)))

\* _extract_note_lines: the lines are sequences of characters
_extract_note_lines(raw_value) ==
    LET broken == [i \in 1..Len(raw_value) |->
                      IF raw_value[i] \in {"<br>", "</div>"} THEN "\n" ELSE raw_value[i]]
        opened == SelectSeq(broken, LAMBDA char : char # "<div>")
        unescaped == [i \in 1..Len(opened) |-> Unescape(opened[i])]
        text == [i \in 1..Len(unescaped) |->
                    IF unescaped[i] \in Tags THEN " " ELSE unescaped[i]]
        split == SplitLines(text, <<>>)
        lines == [i \in 1..Len(split) |-> str_strip(split[i])]
    IN SelectSeq(lines, LAMBDA line : line # <<>>)

ColumnContext(table, column) == [table |-> table, column |-> column]

\* the styles the cells are drawn with
TableStyle == "shape=table;startSize=30"
TextStyle == "text;html=1"

_style_contains(style, fragment) ==
    style # "" /\ fragment = "shape=table" /\ style = TableStyle

\* cell.style.strip().lower().startswith("text;")
IsTextStyle(style) == style = TextStyle

\* _value_is_label that takes only the empty value for a label
OnlyEmptyIsLabel(value) == value = ""

_value_is_label(value) ==
    IF value = "" THEN TRUE ELSE Lower(Strip(value)) \in LABEL_TOKENS

\* cells.get(cell_id), None being NoCell
NoCell == [id |-> ""]

CellGet(cell_id) ==
    IF \E i \in 1..Len(cells) : cells[i].id = cell_id
    THEN cells[CHOOSE i \in 1..Len(cells) : cells[i].id = cell_id]
    ELSE NoCell

\* children.get(parent_id, []): the ids of the cells naming it as parent, in document order
children(parent_id) ==
    LET kids == SelectSeq(cells, LAMBDA c : c.parent # "" /\ c.parent = parent_id)
    IN [i \in 1..Len(kids) |-> kids[i].id]

\* the keys of table_ids; table_ids[id] is the value of the cell
TableIds ==
    {cells[i].id : i \in {j \in 1..Len(cells) :
        cells[j].vertex /\ _style_contains(cells[j].style, "shape=table") /\ cells[j].value # ""}}

\* the cells the loop over cells.items() looks for a table and a column name for
IsCandidate(cell) ==
    /\ ~cell.edge
    /\ cell.id \notin TableIds
    /\ ~(cell.style # "" /\ IsTextStyle(cell.style))

\* column_map.get(cell_id), None being NoCell
ColumnMapKeys == {column_map[i].id : i \in 1..Len(column_map)}

ColumnMapGet(cell_id) ==
    LET entry == column_map[CHOOSE i \in 1..Len(column_map) : column_map[i].id = cell_id]
    IN ColumnContext(entry.table, entry.column)

NoContext == ColumnContext("", "")

\* a call that has returned: the function, its arguments, its result and the
\* ids it added to its visited set, in the order it added them
Call(fn, start, table_id, result, visits) ==
    [fn |-> fn, start |-> start, table_id |-> table_id, result |-> result, visits |-> visits]

NoCall == Call("", "", "", "", <<>>)

\* the run before its first step: the loop over the cells is at the first cell
WalkStart ==
    [loop |-> "cells", i |-> 1, start |-> "", current |-> "", seen |-> {}, visits |-> <<>>,
     table_id |-> "", queue |-> <<>>, end |-> "", start_context |-> NoContext,
     edges |-> <<>>, tables |-> <<>>, finished |-> NoCall]

\* the cells that are table anchors, in document order: the items of table_ids
TableCells == SelectSeq(cells, LAMBDA cell : cell.id \in TableIds)

\* group_map.get(parent_id): the name of the table anchor written last under
\* that parent, "" when there is none
GroupMapGet(parent_id) ==
    LET grouped == SelectSeq(TableCells, LAMBDA cell : cell.parent # "" /\ cell.parent = parent_id)
    IN IF grouped = <<>> THEN "" ELSE grouped[Len(grouped)].value

RECURSIVE RecordColumns(_, _)
\* the loop over column_map.values() for one table: the columns not yet
\* recorded under their lower-cased name, in the order met
RecordColumns(columns, recorded) ==
    IF columns = <<>> THEN <<>>
    ELSE IF Head(columns) = "" \/ Lower(Head(columns)) \in recorded
    THEN RecordColumns(Tail(columns), recorded)
    ELSE <<Head(columns)>> \o RecordColumns(Tail(columns), recorded \cup {Lower(Head(columns))})

\* table_columns that lists the non-empty column of every cell of the table
ColumnsOfEveryCell(table_name) ==
    LET contexts == SelectSeq(column_map, LAMBDA context :
                                  context.table = table_name /\ context.column # "")
    IN [i \in 1..Len(contexts) |-> contexts[i].column]

\* table_columns.get(table_name, [])
table_columns(table_name) ==
    LET contexts == SelectSeq(column_map, LAMBDA context : context.table = table_name)
    IN RecordColumns([i \in 1..Len(contexts) |-> contexts[i].column], {})

RECURSIVE NoteLinesOfCells(_, _)
\* the loop over the free-text cells: the lines of those whose parent is the
\* group of the table
NoteLinesOfCells(cs, table_name) ==
    IF cs = <<>> THEN <<>>
    ELSE LET cell == Head(cs)
             mine == /\ cell.style # "" /\ IsTextStyle(cell.style)
                     /\ GroupMapGet(cell.parent) # ""
                     /\ GroupMapGet(cell.parent) = table_name
         IN (IF mine THEN _extract_note_lines(cell.raw_value) ELSE <<>>)
            \o NoteLinesOfCells(Tail(cs), table_name)

\* note_lines.get(table_name, [])
note_lines(table_name) == NoteLinesOfCells(cells, table_name)

RECURSIVE DiagramTablesOf(_, _)
\* the loop over table_ids.values() that fills the dict tables, in insertion order
DiagramTablesOf(anchors, names) ==
    IF anchors = <<>> THEN <<>>
    ELSE LET table_name == Head(anchors).value
         IN (IF table_name \in names THEN <<>>
             ELSE <<DiagramTable(table_name, table_columns(table_name),
                                 note_lines(table_name))>>)
            \o DiagramTablesOf(Tail(anchors), names \cup {table_name})

\* the loop "for cell_id, cell in cells.items()": skips or calls
\* _find_table_ancestor; past the last cell parse_drawio_tables builds its tables
NextCell ==
    /\ walk.loop = "cells"
    /\ walk' = IF walk.i > Len(cells)
               THEN [walk EXCEPT !.loop = "edges", !.i = 1,
                                 !.tables = DiagramTablesOf(TableCells, {})]
               ELSE IF ~IsCandidate(cells[walk.i])
               THEN [walk EXCEPT !.i = @ + 1]
               ELSE [walk EXCEPT !.loop = "ancestor", !.start = cells[walk.i].id,
                                 !.current = cells[walk.i].id, !.seen = {}, !.visits = <<>>]
    /\ UNCHANGED <<cells, column_map>>
    /\ UNCHANGED replayVars
    /\ UNCHANGED diffVars
    /\ UNCHANGED splitVars

\* the step of _find_table_ancestor without the test of seen
AncestorStepIgnoringSeen ==
    /\ walk.loop = "ancestor"
    /\ LET current == walk.current
           cell == CellGet(current)
           visits == Append(walk.visits, current)
           Returns(result, visited) ==
               [walk EXCEPT !.finished = Call("_find_table_ancestor", walk.start, "", result, visited),
                            !.seen = {}, !.visits = <<>>,
                            !.loop = IF result = "" THEN "cells" ELSE "column",
                            !.i = IF result = "" THEN @ + 1 ELSE @,
                            !.table_id = result,
                            !.queue = IF result = "" THEN <<>>
                                      ELSE <<[id |-> walk.start, depth |-> 0]>>]
       IN walk' = IF current = "" THEN Returns("", walk.visits)
                  ELSE IF current \in TableIds THEN Returns(current, visits)
                  ELSE IF cell = NoCell \/ cell.parent = "" THEN Returns("", visits)
                  ELSE [walk EXCEPT !.current = cell.parent, !.seen = @ \cup {current},
                                    !.visits = visits]
    /\ UNCHANGED <<cells, column_map>>
    /\ UNCHANGED replayVars
    /\ UNCHANGED diffVars
    /\ UNCHANGED splitVars

\* one turn of the while loop of _find_table_ancestor, its return included; a
\* table found starts _resolve_column_name, none goes on to the next cell
FindTableAncestorStep ==
    /\ walk.loop = "ancestor"
    /\ LET current == walk.current
           cell == CellGet(current)
           visits == Append(walk.visits, current)
           Returns(result, visited) ==
               [walk EXCEPT !.finished = Call("_find_table_ancestor", walk.start, "", result, visited),
                            !.seen = {}, !.visits = <<>>,
                            !.loop = IF result = "" THEN "cells" ELSE "column",
                            !.i = IF result = "" THEN @ + 1 ELSE @,
                            !.table_id = result,
                            !.queue = IF result = "" THEN <<>>
                                      ELSE <<[id |-> walk.start, depth |-> 0]>>]
       IN walk' = IF current = "" \/ current \in walk.seen THEN Returns("", walk.visits)
                  ELSE IF current \in TableIds THEN Returns(current, visits)
                  ELSE IF cell = NoCell \/ cell.parent = "" THEN Returns("", visits)
                  ELSE [walk EXCEPT !.current = cell.parent, !.seen = @ \cup {current},
                                    !.visits = visits]
    /\ UNCHANGED <<cells, column_map>>
    /\ UNCHANGED replayVars
    /\ UNCHANGED diffVars
    /\ UNCHANGED splitVars

\* the entries node_id adds to the queue of _resolve_column_name
Enqueued(node_id, depth, table_id, visited) ==
    LET node == CellGet(node_id)
        Entry(id) == [id |-> id, depth |-> depth + 1]
        kids == SelectSeq(children(node_id), LAMBDA id : id \notin visited)
        parent_id == node.parent
        siblings == SelectSeq(children(parent_id),
                              LAMBDA id : id # node_id /\ id \notin visited)
        up == IF parent_id = "" \/ parent_id = table_id THEN <<>>
              ELSE (IF parent_id \notin visited THEN <<parent_id>> ELSE <<>>) \o siblings
    IN [i \in 1..Len(kids \o up) |-> Entry((kids \o up)[i])]

\* one turn of the while loop of _resolve_column_name, its return included;
\* the return stores the ColumnContext of the cell in column_map
ResolveColumnNameStep ==
    /\ walk.loop = "column"
    /\ LET Returns(result, visited) ==
               /\ walk' = [walk EXCEPT
                             !.finished = Call("_resolve_column_name", walk.start,
                                               walk.table_id, result, visited),
                             !.seen = {}, !.visits = <<>>, !.queue = <<>>,
                             !.loop = "cells", !.i = @ + 1]
               /\ column_map' = Append(column_map,
                                       [id |-> walk.start,
                                        table |-> CellGet(walk.table_id).value,
                                        column |-> result])
       IN IF walk.queue = <<>> THEN Returns("", walk.visits)
          ELSE LET node_id == Head(walk.queue).id
                   depth == Head(walk.queue).depth
                   node == CellGet(node_id)
                   visited == walk.seen \cup {node_id}
                   visits == Append(walk.visits, node_id)
               IN IF node_id \in walk.seen \/ depth > MAX_SEARCH_DEPTH
                  THEN /\ walk' = [walk EXCEPT !.queue = Tail(@)]
                       /\ UNCHANGED column_map
                  ELSE IF node = NoCell
                  THEN /\ walk' = [walk EXCEPT !.queue = Tail(@), !.seen = visited,
                                               !.visits = visits]
                       /\ UNCHANGED column_map
                  ELSE IF node.value # "" /\ ~_value_is_label(node.value)
                  THEN Returns(node.value, visits)
                  ELSE /\ walk' = [walk EXCEPT
                                     !.queue = Tail(@) \o Enqueued(node_id, depth,
                                                                   walk.table_id, visited),
                                     !.seen = visited, !.visits = visits]
                       /\ UNCHANGED column_map
    /\ UNCHANGED cells
    /\ UNCHANGED replayVars
    /\ UNCHANGED diffVars
    /\ UNCHANGED splitVars

\* the loop over the edge cells of parse_drawio_edges: skips or calls
\* _resolve_node_context for the source of the edge
NextEdge ==
    /\ walk.loop = "edges"
    /\ walk' = IF walk.i > Len(cells)
               THEN [walk EXCEPT !.loop = "done"]
               ELSE IF ~cells[walk.i].edge
               THEN [walk EXCEPT !.i = @ + 1]
               ELSE [walk EXCEPT !.loop = "context", !.end = "source",
                                 !.start = cells[walk.i].source,
                                 !.current = cells[walk.i].source,
                                 !.seen = {}, !.visits = <<>>]
    /\ UNCHANGED <<cells, column_map>>
    /\ UNCHANGED replayVars
    /\ UNCHANGED diffVars
    /\ UNCHANGED splitVars

\* _resolve_node_context with an edge whose target is unresolved left out
ContextStepDroppingUnresolved ==
    /\ walk.loop = "context"
    /\ LET current == walk.current
           cell == CellGet(current)
           visits == Append(walk.visits, current)
           Returns(context, visited) ==
               LET call == Call("_resolve_node_context", walk.start, "", context, visited)
               IN IF walk.end = "source"
                  THEN [walk EXCEPT !.finished = call, !.start_context = context,
                                    !.end = "target",
                                    !.start = cells[walk.i].target,
                                    !.current = cells[walk.i].target,
                                    !.seen = {}, !.visits = <<>>]
                  ELSE [walk EXCEPT !.finished = call, !.end = "",
                                    !.seen = {}, !.visits = <<>>,
                                    !.edges = IF context.table = "" THEN @
                                              ELSE Append(@, [start_table |-> walk.start_context.table,
                                                              start_column |-> walk.start_context.column,
                                                              end_table |-> context.table,
                                                              end_column |-> context.column]),
                                    !.loop = "edges", !.i = @ + 1]
       IN walk' = IF current = "" \/ current \in walk.seen THEN Returns(ColumnContext("", ""), walk.visits)
                  ELSE IF current \in TableIds
                  THEN Returns(ColumnContext(cell.value, ""), visits)
                  ELSE IF current \in ColumnMapKeys THEN Returns(ColumnMapGet(current), visits)
                  ELSE IF cell = NoCell \/ cell.parent = "" THEN Returns(ColumnContext("", ""), visits)
                  ELSE [walk EXCEPT !.current = cell.parent, !.seen = @ \cup {current},
                                    !.visits = visits]
    /\ UNCHANGED <<cells, column_map>>
    /\ UNCHANGED replayVars
    /\ UNCHANGED diffVars
    /\ UNCHANGED splitVars

\* one turn of the while loop of _resolve_node_context, its return included;
\* the return for the source starts the call for the target, the return for
\* the target appends the edge
ResolveNodeContextStep ==
    /\ walk.loop = "context"
    /\ LET current == walk.current
           cell == CellGet(current)
           visits == Append(walk.visits, current)
           Returns(context, visited) ==
               LET call == Call("_resolve_node_context", walk.start, "", context, visited)
               IN IF walk.end = "source"
                  THEN [walk EXCEPT !.finished = call, !.start_context = context,
                                    !.end = "target",
                                    !.start = cells[walk.i].target,
                                    !.current = cells[walk.i].target,
                                    !.seen = {}, !.visits = <<>>]
                  ELSE [walk EXCEPT !.finished = call, !.end = "",
                                    !.seen = {}, !.visits = <<>>,
                                    !.edges = Append(@, [start_table |-> walk.start_context.table,
                                                         start_column |-> walk.start_context.column,
                                                         end_table |-> context.table,
                                                         end_column |-> context.column]),
                                    !.loop = "edges", !.i = @ + 1]
       IN walk' = IF current = "" \/ current \in walk.seen THEN Returns(NoContext, walk.visits)
                  ELSE IF current \in TableIds
                  THEN Returns(ColumnContext(cell.value, ""), visits)
                  ELSE IF current \in ColumnMapKeys THEN Returns(ColumnMapGet(current), visits)
                  ELSE IF cell = NoCell \/ cell.parent = "" THEN Returns(NoContext, visits)
                  ELSE [walk EXCEPT !.current = cell.parent, !.seen = @ \cup {current},
                                    !.visits = visits]
    /\ UNCHANGED <<cells, column_map>>
    /\ UNCHANGED replayVars
    /\ UNCHANGED diffVars
    /\ UNCHANGED splitVars

-----------------------------------------------------------------------------
(* Runs of the cell loops over bounded cell graphs *)

MaxChain == 8

\* the characters of the values the cells are drawn with
ValueChars ==
    { <<"", <<>> >>, <<"PK", <<"P", "K">> >>, <<"fk", <<"f", "k">> >>,
      <<"id", <<"i", "d">> >>, <<"ID", <<"I", "D">> >>,
      <<"email", <<"e", "m", "a", "i", "l">> >>,
      <<"users", <<"u", "s", "e", "r", "s">> >>,
      <<"orders", <<"o", "r", "d", "e", "r", "s">> >>,
      <<"note", <<"n", "o", "t", "e">> >> }

CharsOf(value) == (CHOOSE p \in ValueChars : p[1] = value)[2]

\* a vertex that is neither a table nor a note
Plain(id, value, parent) == Cell(id, CharsOf(value), "", TRUE, FALSE, parent, "", "")

\* a table anchor
Anchor(id, value, parent) == Cell(id, CharsOf(value), TableStyle, TRUE, FALSE, parent, "", "")

\* an edge between two cells
Edge(id, source, target) == Cell(id, <<>>, "", FALSE, TRUE, "", source, target)

\* a free-text cell
Note(id, raw_value, parent) == Cell(id, raw_value, TextStyle, TRUE, FALSE, parent, "", "")

\* a table, three cells with every choice of parent (the table, each other,
\* themselves, none, an id no cell bears) and an edge
SmallGraphs ==
    { << Anchor("t", "users", pt),
         Plain("a", va, pa), Plain("b", vb, pb), Plain("c", vc, pc),
         Edge("e", "a", target) >> :
        pt \in {"", "c"}, pa \in {"t", "b", "zz"}, pb \in {"", "t", "a", "b", "c"},
        pc \in {"", "t", "a", "b", "zz"},
        va \in {"", "PK"}, vb \in {"", "id"}, vc \in {"fk", "email"},
        target \in {"c", "t"} }

ChainIds == <<"k1", "k2", "k3", "k4", "k5", "k6", "k7", "k8", "k9", "k10">>

\* a chain of n cells, each the parent of the one before; the top cell names
\* top as its parent, and the cell at position valued (if any) bears a name
Chain(n, valued, top) ==
    <<Anchor("t", "users", "")>>
    \o [i \in 1..n |-> Plain(ChainIds[i], IF i = valued THEN "id" ELSE "",
                             IF i = n THEN top ELSE ChainIds[i + 1])]
    \o <<Edge("e", "k1", "t")>>

ChainGraphs ==
    {Chain(n, valued, top) : n \in 1..MaxChain, valued \in 0..MaxChain,
                             top \in {"t", "", "k1", "zz"}}

\* a row of a table with a marker cell and a name cell below it, and a note
RowGraphs ==
    { << Anchor("t", "users", "g"),
         Plain("r", "", "t"), Plain("m", marker, "r"), Plain("n", name, "r"),
         Note("x", CharsOf("note"), "g"),
         Edge("e", "m", "x") >> :
        marker \in {"PK", "fk", ""}, name \in {"id", "email", ""} }

\* two tables, of one name or of two, with name cells that differ in case only
NameGraphs ==
    { << Anchor("t", "users", ""), Anchor("u", second, ""),
         Plain("a", va, "t"), Plain("b", vb, "t"), Plain("c", vc, "u"),
         Edge("e", "a", "c") >> :
        second \in {"users", "orders"}, va \in {"id", "ID", ""},
        vb \in {"id", "ID", "email"}, vc \in {"ID", "email", "PK"} }

\* "FK c -&gt; u<br>Index on [c]"
KeyNote ==
    <<"F", "K", " ", "c", " ", "-", "&gt;", " ", "u", "<br>",
      "I", "n", "d", "e", "x", " ", "o", "n", " ", "[", "c", "]">>

\* "<div>see <b>u</div><div> </div>"
PlainNote == <<"<div>", "s", "e", "e", " ", "<b>", "u", "</div>", "<div>", " ", "</div>">>

\* two groups g and h, a table in g and a table in g, in h or in no group, a
\* cell i inside g, and two notes: one in a group, under the table or under i,
\* the other in a group
NoteGraphs ==
    { << Plain("g", "", ""), Plain("h", "", ""),
         Anchor("t", "users", "g"), Anchor("u", "orders", pu), Plain("i", "", "g"),
         Note("x", KeyNote, px), Note("y", PlainNote, py),
         Edge("e", "x", "y") >> :
        pu \in {"g", "h", ""}, px \in {"g", "h", "t", "i"}, py \in {"g", "h"} }

\* a table with a column cell, a cell outside it, a note inside the table or
\* the column, and two edges with every kind of endpoint: the table, a column,
\* a cell below a column, an unresolved cell, an edge, no cell
EdgeGraphs ==
    { << Anchor("t", "users", ""), Plain("a", "id", "t"), Plain("b", "email", ""),
         Edge("e", s1, t1), Note("n", CharsOf("note"), pn), Edge("f", s2, t2) >> :
        s1 \in {"t", "a", "b", ""}, t1 \in {"a", "n", "zz"}, pn \in {"a", "t", "b"},
        s2 \in {"a", "n", "e"}, t2 \in {"t", "b", ""} }

CellGraphs ==
    SmallGraphs \cup ChainGraphs \cup RowGraphs \cup NameGraphs \cup NoteGraphs \cup EdgeGraphs

InitCells ==
    /\ schema = <<>>
    /\ failures = <<>>
    /\ pos = 0
    /\ last = NoStmt
    /\ prev = <<>>
    /\ before = <<>>
    /\ first = NoStmt
    /\ dropped = {}
    /\ mig = EmptySnapshot
    /\ dia = EmptySnapshot
    /\ diagram = <<>>
    /\ reports = <<>>
    /\ sql = <<>>
    /\ splits = <<>>
    /\ cells \in CellGraphs
    /\ walk = WalkStart
    /\ column_map = <<>>

NextCells ==
    \/ NextCell
    \/ FindTableAncestorStep
    \/ ResolveColumnNameStep
    \/ NextEdge
    \/ ResolveNodeContextStep

SpecCells == InitCells /\ [][NextCells]_vars

\* the loops run one after another in the one thread of the program
SpecCellsRun == SpecCells /\ WF_vars(NextCells)

-----------------------------------------------------------------------------
(* Properties of the column-name search *)

\* the value is one of the reserved markers, whatever its case
IsMarker(value) == Lower(value) = "pk" \/ Lower(value) = "fk"

\* the cell exists and its value can serve as a column name
BearsName(id) ==
    /\ CellGet(id) # NoCell
    /\ CellGet(id).value # ""
    /\ ~IsMarker(CellGet(id).value)

\* the cells next to a cell, in the order the search takes them up: its
\* children, then its parent unless that is the table anchor, then the
\* parent's other children
Neighbours(id, table_id) ==
    IF CellGet(id) = NoCell THEN <<>>
    ELSE LET parent_id == CellGet(id).parent
         IN children(id) \o
            (IF parent_id = "" \/ parent_id = table_id THEN <<>>
             ELSE <<parent_id>> \o SelectSeq(children(parent_id), LAMBDA other : other # id))

RECURSIVE NeighboursOfAll(_, _)
NeighboursOfAll(ids, table_id) ==
    IF ids = <<>> THEN <<>>
    ELSE Neighbours(Head(ids), table_id) \o NeighboursOfAll(Tail(ids), table_id)

RECURSIVE FirstOccurrences(_, _)
\* the ids of the sequence that are not in met, each at its first occurrence
FirstOccurrences(ids, met) ==
    IF ids = <<>> THEN <<>>
    ELSE IF Head(ids) \in met THEN FirstOccurrences(Tail(ids), met)
    ELSE <<Head(ids)>> \o FirstOccurrences(Tail(ids), met \cup {Head(ids)})

RECURSIVE BreadthFirst(_, _, _, _)
\* the ids at distance depth and more, up to MAX_SEARCH_DEPTH, in breadth-first order
BreadthFirst(layer, met, depth, table_id) ==
    IF layer = <<>> \/ depth > MAX_SEARCH_DEPTH THEN <<>>
    ELSE layer \o BreadthFirst(FirstOccurrences(NeighboursOfAll(layer, table_id),
                                                met \cup Range(layer)),
                               met \cup Range(layer), depth + 1, table_id)

\* the ids within MAX_SEARCH_DEPTH of the start, in breadth-first order
BreadthFirstOrder(start_id, table_id) == BreadthFirst(<<start_id>>, {}, 0, table_id)

\* the name the first name-bearing cell of the order gives, "" when none does
FirstName(order) ==
    LET named == SelectSeq(order, LAMBDA id : BearsName(id))
    IN IF named = <<>> THEN "" ELSE CellGet(Head(named)).value

RECURSIVE ParentChainReaches(_, _, _)
\* the parent chain of the cell reaches the target in at most steps steps
ParentChainReaches(id, target, steps) ==
    IF id = target THEN TRUE
    ELSE IF steps = 0 \/ CellGet(id) = NoCell \/ CellGet(id).parent = "" THEN FALSE
    ELSE ParentChainReaches(CellGet(id).parent, target, steps - 1)

\* C28: the column name resolved for a cell is the value of the first cell in
\* breadth-first order from it (children, then the parent unless it is the
\* table anchor, then the parent's other children, to depth MAX_SEARCH_DEPTH)
\* whose value is non-empty and no marker, and "" when there is none; the
\* search visits only cells below the table anchor (or the anchor itself) and
\* the name is never a marker
C28_ColumnNameIsFirstInBreadthFirstOrder ==
    walk.finished.fn = "_resolve_column_name" =>
        LET call == walk.finished
        IN /\ call.result = FirstName(BreadthFirstOrder(call.start, call.table_id))
           /\ ~IsMarker(call.result)
           /\ \A i \in 1..Len(call.visits) :
                 ParentChainReaches(call.visits[i], call.table_id, Len(cells))

\* the search passed over a marker cell and an empty cell and found the name
\* two or more cells later
C28_Witness ==
    /\ walk.finished.fn = "_resolve_column_name"
    /\ walk.finished.result # ""
    /\ Len(walk.finished.visits) >= 3
    /\ \E i \in 1..Len(walk.finished.visits) :
          CellGet(walk.finished.visits[i]).value = "PK"

\* a search gave up at MAX_SEARCH_DEPTH with a name-bearing cell one step beyond
C28_DepthCapReached ==
    /\ walk.finished.fn = "_resolve_column_name"
    /\ walk.finished.result = ""
    /\ \E i \in 1..Len(cells) :
          /\ BearsName(cells[i].id)
          /\ ParentChainReaches(walk.finished.start, cells[i].id, MAX_SEARCH_DEPTH + 1)
          /\ ParentChainReaches(cells[i].id, walk.finished.table_id, Len(cells))

-----------------------------------------------------------------------------
(* Termination of the walks *)

NoRepeats(ids) == \A i, j \in 1..Len(ids) : i # j => ids[i] # ids[j]

RECURSIVE Ancestor(_, _)
\* the cell id steps parent links above the cell, "" when the chain ends before
Ancestor(id, steps) ==
    IF steps = 0 THEN id
    ELSE IF id = "" \/ CellGet(id) = NoCell THEN ""
    ELSE Ancestor(CellGet(id).parent, steps - 1)

\* the parent links lead from the cell back to it and past no table anchor
OnAnchorlessCycle(id) ==
    /\ id # ""
    /\ \E n \in 1..Len(cells) :
          /\ Ancestor(id, n) = id
          /\ \A m \in 0..n : Ancestor(id, m) \notin TableIds

\* no call adds an id to its visited set twice; a cell on a parent cycle
\* without a table anchor gets no entry in column_map and no context as the
\* endpoint of an edge
WalksVisitOnce ==
    /\ NoRepeats(walk.visits)
    /\ NoRepeats(walk.finished.visits)
    /\ Cardinality(walk.seen) = Len(walk.visits)
    /\ \A i \in 1..Len(column_map) : ~OnAnchorlessCycle(column_map[i].id)
    /\ (walk.finished.fn = "_find_table_ancestor" /\ OnAnchorlessCycle(walk.finished.start))
          => walk.finished.result = ""
    /\ (walk.finished.fn = "_resolve_node_context" /\ OnAnchorlessCycle(walk.finished.start))
          => walk.finished.result = NoContext

\* C29: on every cell graph of the bounded families, those with parent cycles
\* and missing parents included, the walk up the parent chain, the
\* breadth-first search and the edge-endpoint walk visit no cell twice, a cell
\* on a parent cycle without table anchor resolves to no table, and every
\* call returns, so that the run over the cells and the edges comes to its end
C29_WalksTerminate ==
    /\ []WalksVisitOnce
    /\ <>(walk.loop = "done")

\* the walk up the parent chain went once round a cycle of two or more cells
\* and gave up
C29_Witness ==
    /\ walk.finished.fn = "_find_table_ancestor"
    /\ OnAnchorlessCycle(walk.finished.start)
    /\ Len(walk.finished.visits) >= 2
    /\ walk.finished.result = ""

\* the walk from the endpoint of an edge went round a cycle and gave up
C29_EndpointOnCycle ==
    /\ walk.finished.fn = "_resolve_node_context"
    /\ OnAnchorlessCycle(walk.finished.start)
    /\ Len(walk.finished.visits) >= 2

-----------------------------------------------------------------------------
(* The walk to the owning table *)

\* the parent chain of the cell meets a table anchor after at most steps steps
ReachesAnchorWithin(id, steps) == \E n \in 0..steps : Ancestor(id, n) \in TableIds

\* the table anchor the parent chain of the cell meets first
FirstAnchor(id) ==
    Ancestor(id, CHOOSE n \in 0..Len(cells) :
                    /\ Ancestor(id, n) \in TableIds
                    /\ \A m \in 0..(n - 1) : Ancestor(id, m) \notin TableIds)

\* C30: the walk to the owning table is capped: a cell whose parent chain
\* meets a table anchor only after more than MAX_SEARCH_DEPTH steps gets no
\* entry in column_map, and so gives no column to any table
C30_AncestorWalkIsCapped ==
    \A i \in 1..Len(column_map) : ReachesAnchorWithin(column_map[i].id, MAX_SEARCH_DEPTH)

\* C30, as the code has it: once the loop over the cells is through, the
\* cells with an entry in column_map are the candidate cells whose parent
\* chain meets a table anchor after any number of steps, each under the table
\* it meets first
C30_AncestorWalkHasNoCap ==
    walk.loop \in {"edges", "context", "done"} =>
        /\ ColumnMapKeys = {cells[i].id : i \in {j \in 1..Len(cells) :
                               /\ IsCandidate(cells[j])
                               /\ ReachesAnchorWithin(cells[j].id, Len(cells))}}
        /\ \A i \in 1..Len(column_map) :
              column_map[i].table = CellGet(FirstAnchor(column_map[i].id)).value

-----------------------------------------------------------------------------
(* Properties of the tables parse_drawio_tables returns *)

\* parse_drawio_tables has built its tables
TablesBuilt == walk.loop \in {"edges", "context", "done"}

\* the places in column_map of the cells of the table that resolved to a name
NamedCellsOf(table_name) ==
    {i \in 1..Len(column_map) : column_map[i].table = table_name /\ column_map[i].column # ""}

\* the place in column_map of the first cell of the table that resolved to the
\* name, whatever its case
FirstCellNamed(table_name, column) ==
    CHOOSE i \in NamedCellsOf(table_name) :
        /\ Lower(column_map[i].column) = Lower(column)
        /\ \A j \in NamedCellsOf(table_name) :
              Lower(column_map[j].column) = Lower(column) => i <= j

\* C31: the column list of every diagram table holds no empty name and no two
\* names equal case-insensitively; it has one entry for each lower-cased
\* non-empty name the cells of the table resolved to, spelled as the first
\* such cell in iteration order resolved it, in the order of those first cells
C31_ColumnsAreFirstOccurrences ==
    TablesBuilt =>
        \A t \in 1..Len(walk.tables) :
            LET table == walk.tables[t]
                columns == table.columns
            IN /\ \A i \in 1..Len(columns) : columns[i] # ""
               /\ \A i, j \in 1..Len(columns) : i # j => Lower(columns[i]) # Lower(columns[j])
               /\ {Lower(columns[i]) : i \in 1..Len(columns)}
                     = {Lower(column_map[i].column) : i \in NamedCellsOf(table.name)}
               /\ \A i \in 1..Len(columns) :
                     columns[i] = column_map[FirstCellNamed(table.name, columns[i])].column
               /\ \A i, j \in 1..Len(columns) :
                     i < j => FirstCellNamed(table.name, columns[i])
                                 < FirstCellNamed(table.name, columns[j])

\* a table has two columns, and two of its cells resolved to names that
\* differ in case only, of which the list keeps the first
C31_Witness ==
    /\ TablesBuilt
    /\ \E t \in 1..Len(walk.tables) :
          /\ Len(walk.tables[t].columns) >= 2
          /\ \E i, j \in NamedCellsOf(walk.tables[t].name) :
                /\ i < j
                /\ column_map[i].column # column_map[j].column
                /\ Lower(column_map[i].column) = Lower(column_map[j].column)

\* the free-text cells, in document order
TextCells == SelectSeq(cells, LAMBDA cell : cell.style # "" /\ IsTextStyle(cell.style))

\* the cell lies in the visual group of the table anchor: the parent of the
\* anchor is the parent of the cell, or the parent of one of its ancestors
InGroupOf(cell, anchor) ==
    /\ anchor.parent # ""
    /\ \E n \in 1..Len(cells) : Ancestor(cell.id, n) = anchor.parent

\* the names of the tables whose group the cell lies in
GroupTables(cell) ==
    {TableCells[i].value : i \in {j \in 1..Len(TableCells) : InGroupOf(cell, TableCells[j])}}

\* C32: a free-text cell that lies in the group of one table, directly or
\* through intermediate cells, gives all its note lines to that table, and a
\* table whose group it does not lie in gets none of them
C32_NotesFollowGroup ==
    TablesBuilt =>
        \A x \in 1..Len(TextCells), t \in 1..Len(walk.tables) :
            LET lines == Range(_extract_note_lines(TextCells[x].raw_value))
                table == walk.tables[t]
            IN /\ GroupTables(TextCells[x]) = {table.name} => lines \subseteq Range(table.note_lines)
               /\ table.name \notin GroupTables(TextCells[x]) =>
                     lines \cap Range(table.note_lines) = {}

\* C32, as the code has it: a table gets the lines of the free-text cells
\* whose parent itself is the parent of the table's anchor, and of two anchors
\* under one parent the later one gets them
C32_NotesFollowDirectParent ==
    TablesBuilt =>
        \A t \in 1..Len(walk.tables) :
            Range(walk.tables[t].note_lines)
              = UNION {Range(_extract_note_lines(TextCells[x].raw_value)) :
                          x \in {y \in 1..Len(TextCells) :
                                    /\ TextCells[y].parent # ""
                                    /\ \E a \in 1..Len(TableCells) :
                                          /\ TableCells[a].parent = TextCells[y].parent
                                          /\ TableCells[a].value = walk.tables[t].name
                                          /\ \A b \in (a + 1)..Len(TableCells) :
                                                TableCells[b].parent # TextCells[y].parent}}

\* two tables in two groups each got the note of its own group
C32_NotesReachTwoTables ==
    /\ TablesBuilt
    /\ Len(walk.tables) = 2
    /\ \A t \in 1..2 : walk.tables[t].note_lines # <<>>

-----------------------------------------------------------------------------
(* Properties of the edges parse_drawio_edges returns *)

\* the edge cells at the positions before i, in cell order
EdgeCellsBefore(i) == SelectSeq(SubSeq(cells, 1, i - 1), LAMBDA cell : cell.edge)

\* what an endpoint stands for: the first cell of its parent chain, itself
\* included, that is a table anchor or has an entry in column_map
EndpointContext(id) ==
    LET Resolved == TableIds \cup ColumnMapKeys
    IN IF \E n \in 0..Len(cells) : Ancestor(id, n) \in Resolved
       THEN LET n == CHOOSE k \in 0..Len(cells) :
                         /\ Ancestor(id, k) \in Resolved
                         /\ \A m \in 0..(k - 1) : Ancestor(id, m) \notin Resolved
                found == Ancestor(id, n)
            IN IF found \in TableIds THEN ColumnContext(CellGet(found).value, "")
               ELSE ColumnMapGet(found)
       ELSE NoContext

\* the record of an edge cell, each end resolved by itself
EdgeRecord(cell) ==
    [start_table |-> EndpointContext(cell.source).table,
     start_column |-> EndpointContext(cell.source).column,
     end_table |-> EndpointContext(cell.target).table,
     end_column |-> EndpointContext(cell.target).column]

\* C33: the edges hold one record for every edge cell the loop has passed, in
\* cell order and with none left out; each end is the table anchor (with an
\* empty column) or the column cell its parent chain meets first, and an end
\* that meets neither has an empty table and an empty column
C33_OneRecordPerEdge ==
    walk.loop \in {"edges", "done"} =>
        LET passed == EdgeCellsBefore(walk.i)
        IN walk.edges = [k \in 1..Len(passed) |-> EdgeRecord(passed[k])]

\* two edges are recorded, the first with an unresolved end, the second with
\* an end below a column cell
C33_Witness ==
    /\ walk.loop = "done"
    /\ Len(walk.edges) = 2
    /\ walk.edges[1].end_table = "" /\ walk.edges[1].start_table # ""
    /\ walk.edges[2].start_column # "" /\ walk.edges[2].end_table # ""
    /\ \E i \in 1..Len(cells) :
          /\ cells[i].edge /\ cells[i].source \notin TableIds \cup ColumnMapKeys
          /\ EndpointContext(cells[i].source).column # ""

-----------------------------------------------------------------------------
(* Runs of run_diff_cli on diagrams whose note lines follow, or miss, the two
   grammars of the note lines *)

\* a line with the summary it stands for; grammar tells whether the line
\* matches its grammar, and a line that stands for nothing has NoSummary
NoteCase(line, grammar, summary) == [line |-> line, grammar |-> grammar, summary |-> summary]

FkLocalParts ==
    {[text |-> <<"C">>, columns |-> <<"c">>],
     [text |-> <<"C", ",", " ", "d">>, columns |-> <<"c", "d">>]}

FkTargetParts ==
    {[text |-> <<"u">>, ref_table |-> "u", ref_columns |-> <<>>],
     [text |-> <<"U", ".", "d">>, ref_table |-> "u", ref_columns |-> <<"d">>],
     [text |-> <<"u", ".", "d", ",", "c">>, ref_table |-> "u", ref_columns |-> <<"d", "c">>]}

\* "FK <col>[,<col>...] -> <table>[.<col>[,<col>...]]"
FkGrammarCases ==
    {NoteCase(keyword \o <<" ">> \o local.text \o <<" ", "-", ">", " ">> \o target.text, TRUE,
              ForeignKeySummary(local.columns, target.ref_table, target.ref_columns)) :
        keyword \in FkKeywords, local \in FkLocalParts, target \in FkTargetParts}

IndexHeadParts ==
    {[text |-> <<"I", "n", "d", "e", "x", " ", "o", "n", " ", "[">>, unique |-> FALSE],
     [text |-> <<"U", "n", "i", "q", "u", "e", " ", "I", "n", "d", "e", "x", " ", "o", "n", " ", "[">>, unique |-> TRUE],
     [text |-> <<"u", "n", "i", "q", "u", "e", " ", "i", "n", "d", "e", "x", " ", "o", "n", " ", "[">>, unique |-> TRUE]}

IndexColumnParts ==
    {[text |-> <<"c">>, columns |-> <<"c">>],
     [text |-> <<"c", ",", "D">>, columns |-> <<"c", "d">>]}

IndexTailParts ==
    {[text |-> <<"]">>, where |-> ""],
     [text |-> <<"]", " ", "w", "h", "e", "r", "e", " ", "c", " ", ">", " ", "0">>, where |-> "c > 0"],
     [text |-> <<"]", " ", "W", "H", "E", "R", "E", " ", "C", " ", ">", " ", "0">>, where |-> "c > 0"]}

\* "[Unique ]Index on [<col>[,<col>...]][ where <predicate>]"
IndexGrammarCases ==
    {NoteCase(head.text \o columns.text \o tail.text, TRUE,
              IndexSummary(columns.columns, head.unique, tail.where)) :
        head \in IndexHeadParts, columns \in IndexColumnParts, tail \in IndexTailParts}

\* lines off the grammars: "FK -> u" (no local column), "FK c u" (no ->),
\* "FKc -> u", "see u", "Index on []" (no column), "Index on [c" and
\* "my Index on [c]"
OffGrammarCases ==
    {NoteCase(<<"F", "K", " ", "-", ">", " ", "u">>, FALSE, ForeignKeySummary(<<>>, "u", <<>>)),
     NoteCase(<<"F", "K", " ", "c", " ", "u">>, FALSE, NoSummary),
     NoteCase(<<"F", "K", "c", " ", "-", ">", " ", "u">>, FALSE, NoSummary),
     NoteCase(<<"s", "e", "e", " ", "u">>, FALSE, NoSummary),
     NoteCase(<<"I", "n", "d", "e", "x", " ", "o", "n", " ", "[", "]">>, FALSE, IndexSummary(<<>>, FALSE, "")),
     NoteCase(<<"I", "n", "d", "e", "x", " ", "o", "n", " ", "[", "c">>, FALSE, NoSummary),
     NoteCase(<<"m", "y", " ", "I", "n", "d", "e", "x", " ", "o", "n", " ", "[", "c", "]">>, FALSE, NoSummary)}

NoteCases == FkGrammarCases \cup IndexGrammarCases \cup OffGrammarCases

NoteCaseOf(line) == CHOOSE case \in NoteCases : case.line = line

IsForeignKeySummary(summary) == "ref_table" \in DOMAIN summary

IsIndexSummary(summary) == "unique" \in DOMAIN summary

\* one table with two note lines, the second off the grammars or a plain index
LineDiagrams ==
    {<<DiagramTable("t", <<"c">>, <<case.line, second>>)>> :
        case \in NoteCases,
        second \in {<<"F", "K", " ", "-", ">", " ", "u">>, <<"F", "K", " ", "c", " ", "u">>, <<"I", "n", "d", "e", "x", " ", "o", "n", " ", "[", "c", "]">>}}

InitLines ==
    /\ schema = <<>>
    /\ failures = <<>>
    /\ pos = 0
    /\ last = NoStmt
    /\ prev = <<>>
    /\ before = <<>>
    /\ first = NoStmt
    /\ dropped = {}
    /\ cells = <<>>
    /\ walk = <<>>
    /\ column_map = <<>>
    /\ mig = EmptySnapshot
    /\ dia = EmptySnapshot
    /\ diagram \in LineDiagrams
    /\ reports = <<>>
    /\ sql = <<>>
    /\ splits = <<>>

NextLines == RunDiffCli

SpecLines == InitLines /\ [][NextLines]_vars

\* the cases of the note lines of the diagram table
CasesOfDiagram == {NoteCaseOf(line) : line \in Range(diagram[1].note_lines)}

\* C34: the Snapshot of the diagram holds a foreign-key summary for exactly
\* the note lines that match the FK grammar and an index summary for exactly
\* the lines that match the index grammar, each with the columns, table, flag
\* and predicate the line states; the other lines, an FK line with no local
\* column or no -> among them, give nothing
C34_SummariesFollowGrammar ==
    reports # <<>> =>
        /\ dia["t"].foreign_keys
             = {case.summary : case \in {c \in CasesOfDiagram :
                                            c.grammar /\ IsForeignKeySummary(c.summary)}}
        /\ dia["t"].indexes
             = {case.summary : case \in {c \in CasesOfDiagram :
                                            c.grammar /\ IsIndexSummary(c.summary)}}

\* C34, as the code has it: besides the lines of the grammars, an FK line with
\* -> and no local column and an index line with empty brackets give a summary
\* with no column; the lines with no keyword, no -> or no ] give nothing
C34_SummariesFollowKeywordAndArrow ==
    reports # <<>> =>
        /\ dia["t"].foreign_keys
             = {case.summary : case \in {c \in CasesOfDiagram : IsForeignKeySummary(c.summary)}}
        /\ dia["t"].indexes
             = {case.summary : case \in {c \in CasesOfDiagram : IsIndexSummary(c.summary)}}

\* a composite foreign key with referenced columns and a partial unique index
\* came out of the notes
C34_GrammarLinesRead ==
    /\ reports # <<>>
    /\ ForeignKeySummary(<<"c", "d">>, "u", <<"d", "c">>) \in dia["t"].foreign_keys
    /\ \E d \in LineDiagrams :
          /\ IndexSummary(<<"c", "d">>, TRUE, "c > 0") \in _table_indexes_from_diagram(d[1])
          /\ _table_foreign_keys_from_diagram(d[1]) = {}

-----------------------------------------------------------------------------
(* Properties of the constraint registry *)

\* the registry of the table agrees with the constraints it names
RegistryAgrees(t) ==
    /\ \A i \in 1..Len(t.foreign_keys) :
          t.foreign_keys[i].name # "" =>
              DictGet(t.constraint_types, t.foreign_keys[i].name) = "foreign_key"
    /\ t.primary_key_name # "" =>
          DictGet(t.constraint_types, t.primary_key_name) = "primary_key"
    /\ \A key \in DOMAIN t.constraint_types :
          t.constraint_types[key] = "foreign_key" =>
              \E i \in 1..Len(t.foreign_keys) : t.foreign_keys[i].name = key

\* C35: in every table of the Schema every named foreign key has a registry
\* entry of kind foreign_key, the primary-key name has one of kind
\* primary_key, and every entry of kind foreign_key names a foreign key
C35_RegistryAgrees == \A i \in 1..Len(schema) : RegistryAgrees(schema[i].table)

\* the names the nodes give to constraints: named table-level constraints and
\* named column constraints
NamesOfNodes(nodes) ==
    {Lower(nodes[i].this.this) : i \in {j \in 1..Len(nodes) : nodes[j].node = "Constraint"}}
    \cup UNION {{Lower(nodes[i].constraints[k].this.this) : k \in 1..Len(nodes[i].constraints)} :
                   i \in {j \in 1..Len(nodes) : nodes[j].node = "ColumnDef"}}

\* the constraint names a statement registers
NamesGiven(stmt) ==
    (IF stmt.node = "Create" /\ "expressions" \in DOMAIN stmt THEN NamesOfNodes(stmt.expressions)
     ELSE IF stmt.node = "Alter"
     THEN UNION {IF stmt.actions[i].node = "AddConstraint"
                 THEN NamesOfNodes(stmt.actions[i].expressions)
                 ELSE IF stmt.actions[i].node = "ColumnDef" THEN NamesOfNodes(<<stmt.actions[i]>>)
                 ELSE {} : i \in 1..Len(stmt.actions)}
     ELSE IF stmt.node = "Command" /\ stmt.matched THEN {Lower(_normalize_identifier(stmt.new))}
     ELSE {}) \ {""}

\* the names the registries of the Schema hold
NamesHeld(s) == UNION {DOMAIN s[i].table.constraint_types : i \in 1..Len(s)}

\* no two constraints of the table bear one name
NamesDistinct(t) ==
    /\ \A i, j \in 1..Len(t.foreign_keys) :
          i # j /\ t.foreign_keys[i].name # "" => t.foreign_keys[i].name # t.foreign_keys[j].name
    /\ \A i \in 1..Len(t.foreign_keys) :
          t.primary_key_name # "" => t.foreign_keys[i].name # t.primary_key_name

\* C35, as the code has it: while no two constraints of a table bear one name,
\* a statement that gives no constraint a name some registry already holds
\* keeps the agreement of every registry, and the names stay distinct
C35_RegistryAgreesUnlessNameTaken ==
    [][(/\ \A i \in 1..Len(schema) :
              RegistryAgrees(schema[i].table) /\ NamesDistinct(schema[i].table)
        /\ NamesGiven(last') \cap NamesHeld(schema) = {})
       => \A i \in 1..Len(schema') :
              RegistryAgrees(schema'[i].table) /\ NamesDistinct(schema'[i].table)]_vars

\* a step with agreeing registries that drops a column of a named foreign key,
\* drops a referenced table, or renames or drops a constraint, and takes the
\* name out of the registry
C35_RegistryShrinks ==
    /\ pos > 1
    /\ last.node \in {"Alter", "Drop", "Command"}
    /\ \A i \in 1..Len(prev) : RegistryAgrees(prev[i].table) /\ NamesDistinct(prev[i].table)
    /\ NamesGiven(last) \cap NamesHeld(prev) = {}
    /\ NamesHeld(prev) \ NamesHeld(schema) # {}
    /\ \A i \in 1..Len(schema) : RegistryAgrees(schema[i].table)

-----------------------------------------------------------------------------
(* Properties of a table rename on the other tables *)

\* table k of the Schema before, with ref_table old_name rewritten to new_name
WithRefTableRewritten(table, old_name, new_name) ==
    LET Rewritten(fk) ==
            IF fk.ref_table = old_name THEN [fk EXCEPT !.ref_table = new_name] ELSE fk
    IN [table EXCEPT !.foreign_keys = SeqMap(Rewritten, @)]

\* C36: a rename of table A to B leaves as many tables as there were, also
\* when B is a table already, and every table other than A is the same before
\* and after but for ref_table A rewritten to B
C36_RenameLosesNoTable ==
    RenamesTable =>
        LET A == _table_name(last.this)
            B == RenameTarget(last)
            pre == SetDefault(prev, A)
        IN /\ Len(schema) = Len(pre)
           /\ \A k \in Keys(pre) \ {A} :
                 /\ k \in Keys(schema)
                 /\ Get(schema, k) = WithRefTableRewritten(Get(pre, k), A, B)

\* C36, as the code has it: a table stored under B before the rename is
\* replaced by the renamed table, so that one table fewer is left; every table
\* other than A and B is the same but for ref_table A rewritten to B
C36_RenameLosesOnlyTheTableOfTheTarget ==
    RenamesTable =>
        LET A == _table_name(last.this)
            B == RenameTarget(last)
            pre == SetDefault(prev, A)
        IN /\ Len(schema) = Len(pre) - (IF B \in Keys(pre) THEN 1 ELSE 0)
           /\ B \in Keys(pre) =>
                 Get(schema, B).columns = Get(pre, A).columns
           /\ \A k \in Keys(pre) \ {A, B} :
                 /\ k \in Keys(schema)
                 /\ Get(schema, k) = WithRefTableRewritten(Get(pre, k), A, B)

\* a rename onto the name of a table with other columns
C36_RenameOntoTable ==
    /\ RenamesTable
    /\ _table_name(last.this) \in Keys(prev)
    /\ RenameTarget(last) \in Keys(prev)
    /\ Get(prev, RenameTarget(last)).columns # Get(prev, _table_name(last.this)).columns
    /\ Len(schema) = 1

-----------------------------------------------------------------------------
(* Properties of DROP COLUMN *)

\* the last statement is ALTER TABLE T with the one action DROP COLUMN c
DropsColumn ==
    /\ last.node = "Alter" /\ last.kind = "TABLE"
    /\ Len(last.actions) = 1
    /\ last.actions[1].node = "Drop" /\ last.actions[1].kind = "COLUMN"
    /\ _table_name(last.this) # ""

LowerNames(names) == {Lower(names[i]) : i \in 1..Len(names)}

\* C37: after DROP COLUMN c on T, T has no column c (in any letter case), its
\* primary key does not hold c, none of its foreign keys lists c as a local
\* column, its registry holds no name of a foreign key removed for listing c,
\* and no foreign key of another table that references T lists c as a
\* referenced column
C37_DropColumnLeavesNoTrace ==
    DropsColumn =>
        LET T == _table_name(last.this)
            c == Lower(_column_name(last.actions[1].this))
            pre == Get(SetDefault(prev, T), T)
            post == Get(schema, T)
            removed == {pre.foreign_keys[i].name : i \in
                           {j \in 1..Len(pre.foreign_keys) :
                               /\ pre.foreign_keys[j].name # ""
                               /\ c \in LowerNames(pre.foreign_keys[j].columns)}}
        IN /\ \A i \in 1..Len(post.columns) : Lower(post.columns[i].name) # c
           /\ c \notin {Lower(col) : col \in post.primary_key}
           /\ \A i \in 1..Len(post.foreign_keys) : c \notin LowerNames(post.foreign_keys[i].columns)
           /\ removed \cap DOMAIN post.constraint_types = {}
           /\ \A e \in ForeignKeysOf(schema) :
                 e.key # T /\ e.fk.ref_table = T => c \notin LowerNames(e.fk.ref_columns)

\* C37, as the code has it: DROP COLUMN c on T clears c from the columns, the
\* primary key, the foreign keys and the registry of T, and leaves every other
\* table as it was, the foreign keys that reference T(c) included
C37_DropColumnCleansItsOwnTable ==
    DropsColumn =>
        LET T == _table_name(last.this)
            c == Lower(_column_name(last.actions[1].this))
            pre == Get(SetDefault(prev, T), T)
            post == Get(schema, T)
            removed == {pre.foreign_keys[i].name : i \in
                           {j \in 1..Len(pre.foreign_keys) :
                               /\ pre.foreign_keys[j].name # ""
                               /\ c \in LowerNames(pre.foreign_keys[j].columns)}}
        IN /\ \A i \in 1..Len(post.columns) : Lower(post.columns[i].name) # c
           /\ c \notin {Lower(col) : col \in post.primary_key}
           /\ \A i \in 1..Len(post.foreign_keys) : c \notin LowerNames(post.foreign_keys[i].columns)
           /\ removed \cap DOMAIN post.constraint_types = {}
           /\ \A k \in Keys(prev) \ {T} : k \in Keys(schema) /\ Get(schema, k) = Get(prev, k)

\* a column that was in the primary key and in a named foreign key is
\* dropped, while another table references it
C37_ReferencedColumnDropped ==
    /\ DropsColumn
    /\ _table_name(last.this) \in Keys(prev)
    /\ LET T == _table_name(last.this)
           c == Lower(_column_name(last.actions[1].this))
       IN /\ Len(Get(prev, T).columns) > Len(Get(schema, T).columns)
          /\ \E e \in ForeignKeysOf(schema) :
                e.key # T /\ e.fk.ref_table = T /\ c \in LowerNames(e.fk.ref_columns)

-----------------------------------------------------------------------------
(* Replays of RENAME CONSTRAINT and DROP CONSTRAINT on tables with keys *)

MaxPair == 2

ConstraintNames == {"k", "p", "q"}

\* table t with columns c and d
TwoColumns ==
    [TableWithIndexes("t") EXCEPT !.columns = <<Column("c", "int", TRUE, FALSE),
                                     Column("d", "int", TRUE, FALSE)>>]

\* the foreign keys a table is given, each with the name it is added under
ForeignKeyLists ==
    {<<>>}
    \cup {<<[fk |-> ForeignKey(<<"c">>, "u", <<"c">>, ""), name |-> n]>> : n \in {"", "k", "q"}}
    \cup {<<[fk |-> ForeignKey(<<"c">>, "u", <<"c">>, ""), name |-> n],
            [fk |-> ForeignKey(<<"d">>, "u", <<"d">>, ""), name |-> m]>> :
             n \in {"k", "q"}, m \in {"", "k", "q", "p"}}

AddForeignKeyOf(t, entry) == add_foreign_key(t, entry.fk, entry.name)

\* the tables t that set_primary_key and add_foreign_key leave
ConstraintTables ==
    {Fold(AddForeignKeyOf, base, fks) :
        base \in {TwoColumns, set_primary_key(TwoColumns, {"c"}, ""),
                  set_primary_key(TwoColumns, {"c"}, "p")},
        fks \in ForeignKeyLists}

InitConstraints ==
    /\ schema \in {<<[key |-> "t", table |-> t],
                     [key |-> "u", table |-> add_foreign_key(TableWithIndexes("u"),
                                                 ForeignKey(<<"c">>, "t", <<"c">>, ""), "k")]>> :
                      t \in ConstraintTables}
    /\ failures = <<>>
    /\ pos = 0
    /\ last = NoStmt
    /\ prev = <<>>
    /\ before = <<>>
    /\ first = NoStmt
    /\ dropped = {}
    /\ cells = <<>>
    /\ walk = <<>>
    /\ column_map = <<>>
    /\ mig = EmptySnapshot
    /\ dia = EmptySnapshot
    /\ diagram = <<>>
    /\ reports = <<>>
    /\ sql = <<>>
    /\ splits = <<>>

\* ALTER TABLE t RENAME CONSTRAINT old TO new
RenameConstraintStep ==
    /\ pos < MaxPair
    /\ \E old \in ConstraintNames \cup {"x"}, new \in ConstraintNames, final \in BOOLEAN :
          Consume(Command(TRUE, Tbl("t"), Tbl(old), Tbl(new)), final)

\* ALTER TABLE t DROP CONSTRAINT name
DropConstraintStep ==
    /\ pos < MaxPair
    /\ \E name \in ConstraintNames, final \in BOOLEAN :
          Consume(AlterStmt("TABLE", Tbl("t"), <<DropAction("CONSTRAINT", Id(name))>>), final)

NextConstraints == RenameConstraintStep \/ DropConstraintStep

SpecConstraints == InitConstraints /\ [][NextConstraints]_vars

-----------------------------------------------------------------------------
(* Properties of RENAME CONSTRAINT followed by DROP CONSTRAINT *)

\* the last statement is RENAME CONSTRAINT old TO new on a table
RenamedConstraint == last.node = "Command" /\ last.matched

\* the last two statements are RENAME CONSTRAINT old TO new and DROP
\* CONSTRAINT name on one table, whose registry held old
RenamedThenDropped(name_of(_)) ==
    /\ first.node = "Command" /\ first.matched
    /\ last.node = "Alter"
    /\ _table_name(last.this) = _normalize_identifier(first.table)
    /\ _normalize_identifier(first.table) \in Keys(before)
    /\ Lower(_normalize_identifier(first.old))
          \in DOMAIN Get(before, _normalize_identifier(first.table)).constraint_types
    /\ Lower(_identifier_name(last.actions[1].this)) = Lower(_normalize_identifier(name_of(first)))

OldOf(command) == command.old
NewOf(command) == command.new

\* the table with the constraint registered under key taken out: the primary
\* key cleared, or one foreign key of that name removed
WithoutConstraint(t, key) ==
    LET rest == [t EXCEPT !.constraint_types = DictPop(@, key)]
    IN IF DictGet(t.constraint_types, key) = "primary_key"
       THEN {sync_primary_key_flags([rest EXCEPT !.primary_key = {}, !.primary_key_name = ""])}
       ELSE {[rest EXCEPT !.foreign_keys = SubSeq(@, 1, i - 1) \o SubSeq(@, i + 1, Len(@))] :
                i \in {j \in 1..Len(t.foreign_keys) : t.foreign_keys[j].name = key}}

\* C38: after RENAME CONSTRAINT old TO new on a table whose registry holds
\* old, DROP CONSTRAINT new leaves the table as it was before the rename less
\* the constraint old named (the primary key cleared, or that one foreign key
\* removed) and every other table as it was, DROP CONSTRAINT old changes
\* nothing, and a rename of a name the registry does not hold changes nothing
C38_DropAfterRenameRemovesTheRenamed ==
    /\ RenamedThenDropped(NewOf) /\ first.old # first.new =>
          LET T == _table_name(last.this)
              old == Lower(_normalize_identifier(first.old))
          IN /\ Get(schema, T) \in WithoutConstraint(Get(before, T), old)
             /\ \A k \in Keys(before) \ {T} : Get(schema, k) = Get(before, k)
             /\ Keys(schema) = Keys(before)
    /\ RenamedThenDropped(OldOf) /\ first.old # first.new => schema = prev
    /\ (/\ RenamedConstraint
        /\ _normalize_identifier(last.table) \in Keys(prev)
        /\ Lower(_normalize_identifier(last.old))
              \notin DOMAIN Get(prev, _normalize_identifier(last.table)).constraint_types)
          => schema = prev

\* the rename before the last statement gave a name the registry did not hold
RenamedToFreeName ==
    Lower(_normalize_identifier(first.new))
        \notin DOMAIN Get(before, _normalize_identifier(first.table)).constraint_types

\* C38, as the code has it: the same, for a rename to a name the registry of
\* the table does not hold yet
C38_DropAfterRenameToFreeName ==
    /\ RenamedThenDropped(NewOf) /\ RenamedToFreeName =>
          LET T == _table_name(last.this)
              old == Lower(_normalize_identifier(first.old))
          IN /\ Get(schema, T) \in WithoutConstraint(Get(before, T), old)
             /\ \A k \in Keys(before) \ {T} : Get(schema, k) = Get(before, k)
             /\ Keys(schema) = Keys(before)
    /\ RenamedThenDropped(OldOf) /\ RenamedToFreeName => schema = prev
    /\ (/\ RenamedConstraint
        /\ _normalize_identifier(last.table) \in Keys(prev)
        /\ Lower(_normalize_identifier(last.old))
              \notin DOMAIN Get(prev, _normalize_identifier(last.table)).constraint_types)
          => schema = prev

\* a renamed primary key was dropped under its new name, beside a foreign key
C38_RenamedPrimaryKeyDropped ==
    /\ RenamedThenDropped(NewOf) /\ RenamedToFreeName
    /\ Get(before, "t").primary_key_name = Lower(_normalize_identifier(first.old))
    /\ Get(before, "t").foreign_keys # <<>>
    /\ Get(schema, "t").primary_key = {}
    /\ Get(schema, "t").foreign_keys = Get(before, "t").foreign_keys

-----------------------------------------------------------------------------
(* Replays of CREATE TABLE statements with "-- FK table(cols)" comments *)

\* what _extract_fk_hints reads from the comments of a statement: the local
\* column, the referenced table and the referenced columns of each comment
FkHints ==
    { <<"c", "u", <<>>>>, <<"c", "u", <<"c">>>>, <<"c", "u", <<"d">>>>,
      <<"d", "t", <<>>>>, <<"", "u", <<"c">>>> }

HintLists ==
    {<<>>} \cup {<<h>> : h \in FkHints} \cup {<<h, g>> : h \in FkHints, g \in FkHints}

\* column c with no key, with an inline reference, with a table-level named
\* foreign key, and with the same reference declared twice
HintedBodies ==
    { <<ColumnDef(Id("c"), "int", <<>>), ColumnDef(Id("d"), "int", <<>>)>>,
      <<ColumnDef(Id("c"), "int", <<Inline(Reference(Tbl("u"), <<Id("c")>>))>>)>>,
      <<ColumnDef(Id("c"), "int", <<>>),
        Constraint(Id("k"), <<ForeignKeyExpr(<<Id("c")>>, Reference(Tbl("u"), <<Id("d")>>))>>)>>,
      <<ColumnDef(Id("c"), "int", <<Inline(Reference(Tbl("u"), <<Id("c")>>))>>),
        ForeignKeyExpr(<<Id("c")>>, Reference(Tbl("u"), <<Id("c")>>))>> }

InitHints ==
    /\ schema = <<>>
    /\ failures = <<>>
    /\ pos = 0
    /\ last = NoStmt
    /\ prev = <<>>
    /\ before = <<>>
    /\ first = NoStmt
    /\ dropped = {}
    /\ cells = <<>>
    /\ walk = <<>>
    /\ column_map = <<>>
    /\ mig = EmptySnapshot
    /\ dia = EmptySnapshot
    /\ diagram = <<>>
    /\ reports = <<>>
    /\ sql = <<>>
    /\ splits = <<>>

\* CREATE TABLE t (...) with comments
CreateHinted ==
    /\ pos < MaxPair
    /\ \E body \in HintedBodies, hints \in HintLists, final \in BOOLEAN :
          Consume(CreateTable(Tbl("t"), body, hints), final)

NextHints == CreateHinted

SpecHints == InitHints /\ [][NextHints]_vars

\* what makes two foreign keys of a table equal for the hints
Triple(fk) == <<fk.columns, fk.ref_table, fk.ref_columns>>

\* the foreign keys the hints ask for
HintTriples(hints) ==
    {<<<<hints[i][1]>>, hints[i][2], IF hints[i][3] # <<>> THEN hints[i][3] ELSE <<hints[i][1]>>>> :
        i \in {j \in 1..Len(hints) : hints[j][1] # "" /\ hints[j][2] # ""}}

\* the number of foreign keys the elements of a CREATE TABLE declare
RECURSIVE DeclaredForeignKeys(_)
DeclaredForeignKeys(nodes) ==
    IF nodes = <<>> THEN 0
    ELSE LET node == Head(nodes)
             here == IF node.node = "ColumnDef"
                     THEN Cardinality({k \in 1..Len(node.constraints) :
                                          node.constraints[k].kind.node = "Reference"})
                     ELSE IF node.node = "Constraint"
                     THEN Cardinality({k \in 1..Len(node.expressions) :
                                          node.expressions[k].node = "ForeignKey"})
                     ELSE IF node.node = "ForeignKey" THEN 1
                     ELSE 0
         IN here + DeclaredForeignKeys(Tail(nodes))

\* the last statement is a CREATE TABLE with a column list
CreatedTable == last.node = "Create" /\ last.kind = "TABLE" /\ last.this_is_schema

\* C39: after a CREATE TABLE the foreign keys past the declared ones come
\* from the comments, each unnamed and equal in (columns, ref_table,
\* ref_columns) to no other foreign key of the table; every comment with a
\* column and a table has its foreign key in the table, declared or added; and
\* with no comment the table holds the declared foreign keys only
C39_HintsAddNoDuplicate ==
    CreatedTable =>
        LET fks == Get(schema, _table_name(last.table)).foreign_keys
            declared == DeclaredForeignKeys(last.expressions)
        IN /\ Len(fks) >= declared
           /\ \A i \in (declared + 1)..Len(fks) :
                 /\ Triple(fks[i]) \in HintTriples(last.hints)
                 /\ fks[i].name = ""
                 /\ \A j \in 1..Len(fks) : j # i => Triple(fks[j]) # Triple(fks[i])
           /\ \A triple \in HintTriples(last.hints) :
                 \E i \in 1..Len(fks) : Triple(fks[i]) = triple
           /\ last.hints = <<>> => Len(fks) = declared

\* a comment repeats a declared foreign key and another comment adds one: the
\* table holds the declared key once and the added key once
C39_Witness ==
    /\ CreatedTable
    /\ Len(last.hints) = 2
    /\ LET fks == Get(schema, _table_name(last.table)).foreign_keys
       IN /\ DeclaredForeignKeys(last.expressions) = 1
          /\ Len(fks) = 2
          /\ Triple(fks[1]) \in HintTriples(last.hints)
          /\ Triple(fks[2]) \in HintTriples(last.hints)

\* two comments ask for one foreign key, which is added once
C39_RepeatedHintAddedOnce ==
    /\ CreatedTable
    /\ Len(last.hints) = 2 /\ last.hints[1] = last.hints[2]
    /\ DeclaredForeignKeys(last.expressions) = 0
    /\ Len(Get(schema, _table_name(last.table)).foreign_keys) = 1

====
